---- MODULE Spec2Model ----
(***************************************************************************)
(* hcl-parser-js: the PEG grammar (src/grammar.pegjs), the parse/safeParse *)
(* wrappers (src/parser.ts), the stringifier (src/stringify.ts) and the    *)
(* zod schema (src/zod.ts), as a state machine over a bounded set of       *)
(* input texts.                                                            *)
(*                                                                         *)
(* Texts are TLA+ strings; the parser walks the tuple of their characters. *)
(* JavaScript null is Null; arrays are sequences; nodes are records that   *)
(* keep the field names of the source.                                     *)
(***************************************************************************)
EXTENDS Integers, Sequences, FiniteSets, TLC

\* ------------------------------------------------------------------------
\* Characters and strings
\* ------------------------------------------------------------------------

Null == <<>>

Chars(str) == [i \in 1..Len(str) |-> SubSeq(str, i, i)]

RECURSIVE Join(_)
Join(cs) == IF cs = <<>> THEN "" ELSE Head(cs) \o Join(Tail(cs))

\* the character at p, "" past the end of the input
At(s, p) == IF p >= 1 /\ p <= Len(s) THEN s[p] ELSE ""

StartsWith(s, p, lit) ==
    /\ p + Len(lit) - 1 <= Len(s)
    /\ \A i \in 1..Len(lit) : s[p + i - 1] = SubSeq(lit, i, i)

Lower == {"a","b","c","d","e","f","g","h","i","j","k","l","m",
          "n","o","p","q","r","s","t","u","v","w","x","y","z"}
Upper == {"A","B","C","D","E","F","G","H","I","J","K","L","M",
          "N","O","P","Q","R","S","T","U","V","W","X","Y","Z"}
decimal == {"0","1","2","3","4","5","6","7","8","9"}
hex == decimal \cup {"a","b","c","d","e","f","A","B","C","D","E","F"}

\* [a-zA-Z_] and [a-zA-Z0-9_]; the high-unicode range of the grammar lies
\* outside the ASCII input alphabet of the model
id_start == Lower \cup Upper \cup {"_"}
id_continue == Lower \cup Upper \cup decimal \cup {"_"}

DigitVal(c) == CASE c = "0" -> 0 [] c = "1" -> 1 [] c = "2" -> 2 [] c = "3" -> 3
                 [] c = "4" -> 4 [] c = "5" -> 5 [] c = "6" -> 6 [] c = "7" -> 7
                 [] c = "8" -> 8 [] c = "9" -> 9
                 [] c \in {"a","A"} -> 10 [] c \in {"b","B"} -> 11
                 [] c \in {"c","C"} -> 12 [] c \in {"d","D"} -> 13
                 [] c \in {"e","E"} -> 14 [] c \in {"f","F"} -> 15

\* parseInt(digits, radix) on a tuple of digit characters
RECURSIVE parseInt(_, _)
parseInt(ds, radix) ==
    IF ds = <<>> THEN 0
    ELSE parseInt(SubSeq(ds, 1, Len(ds) - 1), radix) * radix + DigitVal(ds[Len(ds)])

DigitChar(d) == SubSeq("0123456789", d + 1, d + 1)

\* the decimal digits of a natural number, as a string
RECURSIVE NatToString(_)
NatToString(n) == IF n < 10 THEN DigitChar(n) ELSE NatToString(n \div 10) \o DigitChar(n % 10)

RECURSIVE Zeros(_)
Zeros(n) == IF n <= 0 THEN "" ELSE "0" \o Zeros(n - 1)

\* ------------------------------------------------------------------------
\* Numbers: a double is modelled by the decimal it prints as, m * 10^e with
\* m not divisible by 10 (exact for the short literals of the model), or
\* Infinity on overflow.
\* ------------------------------------------------------------------------

DoubleMaxExp10 == 309

RECURSIVE Normalize(_, _)
Normalize(m, e) ==
    IF m = 0 THEN [m |-> 0, e |-> 0, inf |-> FALSE]
    ELSE IF m % 10 = 0 THEN Normalize(m \div 10, e + 1)
    ELSE [m |-> m, e |-> e, inf |-> FALSE]

Infinity == [m |-> 0, e |-> 0, inf |-> TRUE]

\* parseFloat(str) for str = integer [. fraction] [e sign digits]
parseFloat(intDs, fracDs, expSign, expDs) ==
    LET m == parseInt(intDs \o fracDs, 10)
        x == parseInt(expDs, 10)
        e == (IF expSign = "-" THEN 0 - x ELSE x) - Len(fracDs)
        v == Normalize(m, e)
    IN IF v.m # 0 /\ Len(NatToString(v.m)) + v.e > DoubleMaxExp10 THEN Infinity ELSE v

\* Number.prototype.toString()
NumberToString(v) ==
    IF v.inf THEN "Infinity"
    ELSE IF v.m = 0 THEN "0"
    ELSE LET d == NatToString(v.m)
             k == Len(d)
             n == k + v.e
         IN IF k <= n /\ n <= 21 THEN d \o Zeros(n - k)
            ELSE IF 0 < n /\ n <= 21 THEN SubSeq(d, 1, n) \o "." \o SubSeq(d, n + 1, k)
            ELSE IF -6 < n /\ n <= 0 THEN "0." \o Zeros(0 - n) \o d
            ELSE LET x == n - 1
                     sx == (IF x < 0 THEN "-" ELSE "+")
                           \o NatToString(IF x < 0 THEN 0 - x ELSE x)
                 IN IF k = 1 THEN d \o "e" \o sx
                    ELSE SubSeq(d, 1, 1) \o "." \o SubSeq(d, 2, k) \o "e" \o sx

\* ------------------------------------------------------------------------
\* Lexical rules of grammar.pegjs. A rule that produces no value returns
\* the position after its match, or NoMatch.
\* ------------------------------------------------------------------------

NoMatch == 0

\* (!"*/" .)* "*/"
RECURSIVE InlineCommentTail(_, _)
InlineCommentTail(s, p) ==
    CASE StartsWith(s, p, "*/") -> p + 2
      [] p > Len(s) -> NoMatch
      [] OTHER -> InlineCommentTail(s, p + 1)

InlineComment(s, p) ==
    IF StartsWith(s, p, "/*") THEN InlineCommentTail(s, p + 2) ELSE NoMatch

\* _ws = [ \t] / InlineComment
ws(s, p) ==
    IF At(s, p) \in {" ", "\t"} THEN p + 1 ELSE InlineComment(s, p)

\* _ = _ws*
RECURSIVE wsStar(_, _)
wsStar(s, p) ==
    LET q == ws(s, p) IN IF q = NoMatch THEN p ELSE wsStar(s, q)

\* [^\n\r]*
RECURSIVE RestOfLine(_, _)
RestOfLine(s, p) ==
    IF p > Len(s) \/ At(s, p) \in {"\n", "\r"} THEN p ELSE RestOfLine(s, p + 1)

RECURSIVE NewLine(_, _)
\* LineComment = "//" / "#" [^\n\r]* NewLine: the choice binds weaker than
\* the sequence, so the first alternative is the two slashes alone
LineComment(s, p) ==
    CASE StartsWith(s, p, "//") -> p + 2
      [] At(s, p) = "#" -> NewLine(s, RestOfLine(s, p + 1))
      [] OTHER -> NoMatch

\* NewLine = "\n" / "\r\n" / LineComment
NewLine(s, p) ==
    CASE At(s, p) = "\n" -> p + 1
      [] StartsWith(s, p, "\r\n") -> p + 2
      [] OTHER -> LineComment(s, p)

\* __ = (_ws* NewLine)* (_ws*)?
RECURSIVE emptyLines(_, _)
emptyLines(s, p) ==
    LET n == NewLine(s, wsStar(s, p))
    IN IF n = NoMatch THEN wsStar(s, p) ELSE emptyLines(s, n)

\* __eof = !.
eof(s, p) == IF p > Len(s) THEN p ELSE NoMatch

\* _terminator = NewLine / __eof
terminator(s, p) ==
    LET n == NewLine(s, p) IN IF n # NoMatch THEN n ELSE eof(s, p)

\* ------------------------------------------------------------------------
\* Results. A rule that produces a value returns a result record; hm is the
\* value of the heredocMarker register after the attempt (actions run as
\* the parser goes, so a failed attempt may leave the register changed).
\* thrown: an action threw (a RangeError), which aborts the whole parse.
\* ------------------------------------------------------------------------

Ok(p, h, v) == [ok |-> TRUE, thrown |-> FALSE, pos |-> p, hm |-> h, val |-> v]
Fail(h) == [ok |-> FALSE, thrown |-> FALSE, pos |-> NoMatch, hm |-> h, val |-> Null]
Throw(h) == [ok |-> FALSE, thrown |-> TRUE, pos |-> NoMatch, hm |-> h, val |-> Null]

\* an ordered choice stops at an alternative that matched or threw
Done(r) == r.ok \/ r.thrown

\* a lexical rule that ended at q
Lexical(q, h) == IF q = NoMatch THEN Fail(h) ELSE Ok(q, h, Null)

\* the literal lit at p
Literal(s, p, h, lit) ==
    IF StartsWith(s, p, lit) THEN Ok(p + Len(lit), h, lit) ELSE Fail(h)

\* the first literal of lits that matches at p, "" when none does
RECURSIVE FirstLit(_, _, _)
FirstLit(s, p, lits) ==
    CASE lits = <<>> -> ""
      [] StartsWith(s, p, Head(lits)) -> Head(lits)
      [] OTHER -> FirstLit(s, p, Tail(lits))

\* the end of a run of characters of the class cls starting at p
RECURSIVE Run(_, _, _)
Run(s, p, cls) == IF At(s, p) \in cls THEN Run(s, p + 1, cls) ELSE p

\* the rules refer to each other by name
RECURSIVE Rule(_, _, _, _)

\* Sequence: the rule name where the match m ended; a part that fails or
\* throws is the result of the sequence.
Then(s, m, name) == IF m.ok THEN Rule(name, s, m.pos, m.hm) ELSE m

\* the literal lit where m ended
ThenLit(s, m, lit) == IF m.ok THEN Literal(s, m.pos, m.hm, lit) ELSE m

\* ("a" / "b" / ...) where m ended
ThenAny(s, m, lits) ==
    CASE ~m.ok -> m
      [] FirstLit(s, m.pos, lits) = "" -> Fail(m.hm)
      [] OTHER -> Literal(s, m.pos, m.hm, FirstLit(s, m.pos, lits))

\* !lit where m ended
ThenNot(s, m, lit) == IF m.ok /\ StartsWith(s, m.pos, lit) THEN Fail(m.hm) ELSE m

\* Ordered choice: the rule name at p when the alternatives before it,
\* whose result is prev, did not match.
Else(s, p, prev, name) == IF Done(prev) THEN prev ELSE Rule(name, s, p, prev.hm)

\* Optional part: r is the attempt made where m ended; when it does not
\* match, the value is absent and the register is as the attempt left it.
OptOr(m, r, absent) == IF ~m.ok \/ Done(r) THEN r ELSE Ok(m.pos, r.hm, absent)
Opt(m, r) == OptOr(m, r, Null)

\* name? and lit? where m ended
OptRule(s, m, name) == Opt(m, Then(s, m, name))
OptLit(s, m, lit) == Opt(m, ThenLit(s, m, lit))

\* !!(lit?) where m ended: whether the optional literal is there
Flag(s, m, lit) ==
    CASE ~m.ok -> m
      [] StartsWith(s, m.pos, lit) -> Ok(m.pos + Len(lit), m.hm, TRUE)
      [] OTHER -> Ok(m.pos, m.hm, FALSE)

\* name* at p: val is the array of the values
RECURSIVE Star(_, _, _, _, _)
Star(s, p, h, name, acc) ==
    LET r == Rule(name, s, p, h)
    IN CASE r.thrown -> r
         [] r.ok -> Star(s, r.pos, r.hm, name, Append(acc, r.val))
         [] OTHER -> Ok(p, r.hm, acc)

\* name* where m ended
ThenStar(s, m, name) == IF m.ok THEN Star(s, m.pos, m.hm, name, <<>>) ELSE m

\* Identifier = first:_id_start rest:(_id_continue / "-")*
Identifier(s, p, h) ==
    IF At(s, p) \in id_start
    THEN LET q == Run(s, p + 1, id_continue \cup {"-"})
         IN Ok(q, h, [type |-> "Identifier", value |-> Join(SubSeq(s, p, q - 1))])
    ELSE Fail(h)

\* the action of NumericLit: the integer part is s[p..i-1], the fraction
\* s[i+1..f-1], the exponent digits s[x..q-1], with its sign before x
NumericValue(s, p, i, f, x, q, h) ==
    Ok(q, h, [type |-> "NumberLiteral",
              value |-> parseFloat(SubSeq(s, p, i - 1), SubSeq(s, i + 1, f - 1),
                                   IF x = f + 2 THEN At(s, f + 1) ELSE "+", SubSeq(s, x, q - 1))])

\* exponent:(_expmark _decimal+)? with _expmark = [eE] [+-]?; the digits
\* start at x
NumericExponent(s, p, i, f, x, h) ==
    IF At(s, f) \in {"e", "E"} /\ At(s, x) \in decimal
    THEN NumericValue(s, p, i, f, x, Run(s, x, decimal), h)
    ELSE NumericValue(s, p, i, f, f, f, h)

\* fraction:("." _decimal+)? after the integer part, which ends before i
NumericFraction(s, p, i, f, h) ==
    NumericExponent(s, p, i, f, IF At(s, f + 1) \in {"+", "-"} THEN f + 2 ELSE f + 1, h)

\* NumericLit = integer:_decimal+ fraction:("." _decimal+)? exponent:(_expmark _decimal+)?
NumericInteger(s, p, i, h) ==
    IF At(s, i) = "." /\ At(s, i + 1) \in decimal
    THEN NumericFraction(s, p, i, Run(s, i + 1, decimal), h)
    ELSE NumericFraction(s, p, i, i, h)

NumericLit(s, p, h) ==
    IF At(s, p) \in decimal THEN NumericInteger(s, p, Run(s, p, decimal), h) ELSE Fail(h)


\* ------------------------------------------------------------------------
\* Escape sequences and string literals
\* ------------------------------------------------------------------------

\* the characters with codes 32..95 and 97..126
AsciiLow == " !\"#$%&'()*+,-./0123456789:;<=>?@ABCDEFGHIJKLMNOPQRSTUVWXYZ[\\]^_"
AsciiHigh == "abcdefghijklmnopqrstuvwxyz{|}~"

\* a character outside the alphabet of the model
OtherChar == "\f"

MaxCodePoint == 1114111

\* String.fromCharCode(n) / String.fromCodePoint(n) for n <= MaxCodePoint
CodeToChar(n) ==
    CASE n = 9 -> "\t"
      [] n = 10 -> "\n"
      [] n = 13 -> "\r"
      [] n >= 32 /\ n <= 95 -> SubSeq(AsciiLow, n - 31, n - 31)
      [] n >= 97 /\ n <= 126 -> SubSeq(AsciiHigh, n - 96, n - 96)
      [] OTHER -> OtherChar

AllHex(s, p, n) == \A i \in 0..(n - 1) : At(s, p + i) \in hex

\* "U" digits:$(_hex^7) { return String.fromCodePoint(parseInt(digits, 16)) }
\* with the code point n: fromCodePoint throws a RangeError past MaxCodePoint
FromCodePoint(p, h, n) == IF n > MaxCodePoint THEN Throw(h) ELSE Ok(p + 9, h, CodeToChar(n))

\* the alternatives of _escape_seq after the backslash at p
EscapeSequence(s, p, h, c) ==
    CASE c = "n" -> Ok(p + 2, h, "\n")
      [] c = "r" -> Ok(p + 2, h, "\r")
      [] c = "t" -> Ok(p + 2, h, "\t")
      [] c = "\"" -> Ok(p + 2, h, "\"")
      [] c = "\\" -> Ok(p + 2, h, "\\")
      [] c = "u" /\ AllHex(s, p + 2, 4) -> Ok(p + 6, h, CodeToChar(parseInt(SubSeq(s, p + 2, p + 5), 16)))
      [] c = "U" /\ AllHex(s, p + 2, 7) -> FromCodePoint(p, h, parseInt(SubSeq(s, p + 2, p + 8), 16))
      [] OTHER -> Fail(h)

\* _escape_seq = "\\" ( "n" / "r" / "t" / '"' / "\\" / "u" hex^4 / "U" hex^7 )
\* val is the decoded character
escape_seq(s, p, h) ==
    IF At(s, p) = "\\" THEN EscapeSequence(s, p, h, At(s, p + 1)) ELSE Fail(h)

\* _template_escape = "$$" / "%%"
template_escape(s, p, h) ==
    CASE StartsWith(s, p, "$$") -> Ok(p + 2, h, "$")
      [] StartsWith(s, p, "%%") -> Ok(p + 2, h, "%")
      [] OTHER -> Fail(h)

\* ![...] . { return text() } for the excluded characters cls
AnyBut(s, p, h, cls) ==
    IF p <= Len(s) /\ At(s, p) \notin cls THEN Ok(p + 1, h, At(s, p)) ELSE Fail(h)

\* !["\\\n\r] .
PlainChar(s, p, h) == AnyBut(s, p, h, {"\"", "\\", "\n", "\r"})

\* !["\\\n\r$%] .
PlainTemplateChar(s, p, h) == AnyBut(s, p, h, {"\"", "\\", "\n", "\r", "$", "%"})

\* _char = _escape_seq / !["\\\n\r] .
char(s, p, h) == Else(s, p, Rule("_escape_seq", s, p, h), "PlainChar")

\* _template_char = _escape_seq / _template_escape / !["\\\n\r$%] .
template_char(s, p, h) ==
    Else(s, p, Else(s, p, Rule("_escape_seq", s, p, h), "_template_escape"), "PlainTemplateChar")

\* StringLit = '"' chars:_char* '"'
StringLit(s, p, h) ==
    LET chars == ThenStar(s, Literal(s, p, h, "\""), "_char")
        close == ThenLit(s, chars, "\"")
    IN IF close.ok
       THEN Ok(close.pos, close.hm, [type |-> "StringLiteral", value |-> Join(chars.val)])
       ELSE close

\* TrueLit, FalseLit and NullLit
TrueLit(s, p, h) ==
    IF StartsWith(s, p, "true") THEN Ok(p + 4, h, [type |-> "BooleanLiteral", value |-> TRUE]) ELSE Fail(h)
FalseLit(s, p, h) ==
    IF StartsWith(s, p, "false") THEN Ok(p + 5, h, [type |-> "BooleanLiteral", value |-> FALSE]) ELSE Fail(h)
NullLit(s, p, h) ==
    IF StartsWith(s, p, "null") THEN Ok(p + 4, h, [type |-> "NullLiteral", value |-> Null]) ELSE Fail(h)

\* LiteralValue = NumericLit / TrueLit / FalseLit / NullLit
LiteralValue(s, p, h) ==
    Else(s, p, Else(s, p, Else(s, p, Rule("NumericLit", s, p, h), "TrueLit"), "FalseLit"), "NullLit")


\* ------------------------------------------------------------------------
\* Expressions
\* ------------------------------------------------------------------------

\* { ...op, target }
WithTarget(op, target) ==
    [f \in DOMAIN op \cup {"target"} |-> IF f = "target" THEN target ELSE op[f]]

\* tail.reduce((target, op) => ({ ...op, target }), head)
RECURSIVE Reduce(_, _)
Reduce(tail, target) ==
    IF tail = <<>> THEN target ELSE Reduce(Tail(tail), WithTarget(Head(tail), target))

\* LegacyIndex = "." digits:$[0-9]+
LegacyIndex(s, p, h) ==
    IF At(s, p) = "." /\ At(s, p + 1) \in decimal
    THEN LET q == Run(s, p + 1, decimal)
         IN Ok(q, h, [type |-> "LegacyIndexOperator",
                      key |-> [type |-> "NumberLiteral",
                               value |-> Normalize(parseInt(SubSeq(s, p + 1, q - 1), 10), 0)]])
    ELSE Fail(h)

\* _ "[" _ expr:Expression _ "]", the first alternative of Index
BracketIndex(s, p, h) ==
    LET expr == Then(s, Then(s, ThenLit(s, Rule("_", s, p, h), "["), "_"), "Expression")
        close == ThenLit(s, Then(s, expr, "_"), "]")
    IN CASE ~expr.ok -> expr
         [] ~close.ok -> close
         [] OTHER -> Ok(close.pos, close.hm, [type |-> "IndexOperator", key |-> expr.val])

\* Index = _ "[" _ expr:Expression _ "]" / LegacyIndex
Index(s, p, h) == Else(s, p, Rule("BracketIndex", s, p, h), "LegacyIndex")

\* GetAttr = _ "." _ key:Identifier
GetAttr(s, p, h) ==
    LET key == Then(s, Then(s, ThenLit(s, Rule("_", s, p, h), "."), "_"), "Identifier")
    IN IF key.ok THEN Ok(key.pos, key.hm, [type |-> "GetAttributeOperator", key |-> key.val]) ELSE key

\* AttrSplat = _ "." _ "*" attributes:GetAttr*
AttrSplat(s, p, h) ==
    LET attributes ==
            ThenStar(s, ThenLit(s, Then(s, ThenLit(s, Rule("_", s, p, h), "."), "_"), "*"), "GetAttr")
    IN IF attributes.ok
       THEN Ok(attributes.pos, attributes.hm,
               [type |-> "SplatOperator", kind |-> "Attribute", attributes |-> attributes.val])
       ELSE attributes

\* (GetAttr / Index) of FullSplat
SplatOperation(s, p, h) == Else(s, p, Rule("GetAttr", s, p, h), "Index")

\* _ "[" _ "*" _ "]" of FullSplat
SplatBrackets(s, p, h) ==
    ThenLit(s, Then(s, ThenLit(s, Then(s, ThenLit(s, Rule("_", s, p, h), "["), "_"), "*"), "_"), "]")

\* FullSplat = _ "[" _ "*" _ "]" operations:(GetAttr / Index)*
FullSplat(s, p, h) ==
    LET operations == ThenStar(s, SplatBrackets(s, p, h), "SplatOperation")
    IN IF operations.ok
       THEN Ok(operations.pos, operations.hm,
               [type |-> "SplatOperator", kind |-> "Full", operations |-> operations.val])
       ELSE operations

\* Splat = AttrSplat / FullSplat
Splat(s, p, h) == Else(s, p, Rule("AttrSplat", s, p, h), "FullSplat")

\* VariableExpr = name:Identifier
VariableExpr(s, p, h) ==
    LET name == Rule("Identifier", s, p, h)
    IN IF name.ok THEN Ok(name.pos, name.hm, [type |-> "VariableExpression", name |-> name.val]) ELSE name

\* (__ "," __ expr:Expression { return expr }) of _function_args
NextArg(s, p, h) ==
    Then(s, Then(s, ThenLit(s, Rule("__", s, p, h), ","), "__"), "Expression")

\* first:Expression rest:(...)* __ ","?, the first alternative of
\* _function_args
SomeArgs(s, p, h) ==
    LET first == Rule("Expression", s, p, h)
        rest == ThenStar(s, first, "NextArg")
        comma == OptLit(s, Then(s, rest, "__"), ",")
    IN CASE ~first.ok -> first
         [] ~rest.ok -> rest
         [] ~comma.ok -> comma
         [] OTHER -> Ok(comma.pos, comma.hm, <<first.val>> \o rest.val)

\* _ { return [] }, the second alternative of _function_args
NoArgs(s, p, h) == Ok(wsStar(s, p), h, <<>>)

\* _function_args = first:Expression rest:(...)* __ ","? / _ { return [] }
function_args(s, p, h) == Else(s, p, Rule("SomeArgs", s, p, h), "NoArgs")

\* FunctionCall = name:Identifier _ "(" __ args:_function_args? __ ")"
FunctionCall(s, p, h) ==
    LET name == Rule("Identifier", s, p, h)
        args == OptRule(s, Then(s, ThenLit(s, Then(s, name, "_"), "("), "__"), "_function_args")
        close == ThenLit(s, Then(s, args, "__"), ")")
    IN CASE ~args.ok -> args
         [] ~close.ok -> close
         [] OTHER -> Ok(close.pos, close.hm,
                        [type |-> "FunctionCallExpression", name |-> name.val, args |-> args.val])

\* a parenthesised expression that leaves no node of its own in the tree
ParenthesizedDropped(s, p, h) ==
    LET expression == Then(s, Then(s, Literal(s, p, h, "("), "_"), "Expression")
        close == ThenLit(s, Then(s, expression, "_"), ")")
    IN CASE ~expression.ok -> expression
         [] ~close.ok -> close
         [] OTHER -> Ok(close.pos, close.hm, expression.val)

\* "(" _ expression:Expression _ ")", the last alternative of the head of
\* _expr_term
Parenthesized(s, p, h) ==
    LET expression == Then(s, Then(s, Literal(s, p, h, "("), "_"), "Expression")
        close == ThenLit(s, Then(s, expression, "_"), ")")
    IN CASE ~expression.ok -> expression
         [] ~close.ok -> close
         [] OTHER -> Ok(close.pos, close.hm,
                        [type |-> "ParenthesizedExpression", expression |-> expression.val])

\* (Index / GetAttr / Splat) of _expr_term
PostfixOp(s, p, h) == Else(s, p, Else(s, p, Rule("Index", s, p, h), "GetAttr"), "Splat")

\* _expr_term = head:( TemplateExpr / LiteralValue / FunctionCall / CollectionValue
\*                     / VariableExpr / ForExpr / "(" _ Expression _ ")" )
\*              tail:(Index / GetAttr / Splat)*
\*   { return tail.reduce((target, op) => ({ ...op, target }), head) }
expr_term(s, p, h) ==
    LET a1 == Rule("TemplateExpr", s, p, h)
        a2 == Else(s, p, a1, "LiteralValue")
        a3 == Else(s, p, a2, "FunctionCall")
        a4 == Else(s, p, a3, "CollectionValue")
        a5 == Else(s, p, a4, "VariableExpr")
        a6 == Else(s, p, a5, "ForExpr")
        head == Else(s, p, a6, "Parenthesized")
        tail == ThenStar(s, head, "PostfixOp")
    IN CASE a1.thrown -> a1
         [] a2.thrown -> a2
         [] a3.thrown -> a3
         [] a4.thrown -> a4
         [] a5.thrown -> a5
         [] a6.thrown -> a6
         [] ~head.ok -> head
         [] ~tail.ok -> tail
         [] OTHER -> Ok(tail.pos, tail.hm, Reduce(tail.val, head.val))

\* UnaryOp = _ operator:("-" / "!") _ term:_expr_term
UnaryOp(s, p, h) ==
    LET operator == ThenAny(s, Rule("_", s, p, h), <<"-", "!">>)
        term == Then(s, Then(s, operator, "_"), "_expr_term")
    IN IF term.ok
       THEN Ok(term.pos, term.hm, [type |-> "UnaryOperator", operator |-> operator.val, term |-> term.val])
       ELSE term

\* a binary level whose right operand is a single term
BinaryLevelTermRight(s, left, operators) ==
    LET operator == ThenAny(s, Then(s, left, "_"), operators)
        right == Then(s, Then(s, operator, "_"), "_expr_term")
    IN CASE ~operator.ok -> left
         [] right.ok -> Ok(right.pos, right.hm,
                           [type |-> "BinaryOperator", operator |-> operator.val,
                            left |-> left.val, right |-> right.val])
         [] OTHER -> OptOr(left, right, left.val)

\* left right:(_ operator _ Expression)? { return right ? { ... } : left }
\* of the six binary levels, with the result of the left operand: one
\* operator of the level, then the whole Expression rule
BinaryLevel(s, left, operators) ==
    LET operator == ThenAny(s, Then(s, left, "_"), operators)
        right == Then(s, Then(s, operator, "_"), "Expression")
    IN CASE ~operator.ok -> left
         [] right.ok -> Ok(right.pos, right.hm,
                           [type |-> "BinaryOperator", operator |-> operator.val,
                            left |-> left.val, right |-> right.val])
         [] OTHER -> OptOr(left, right, left.val)

\* the levels, each on the result of its left operand, the level below
MultiplicativeOp(s, left) == BinaryLevel(s, left, <<"*", "/", "%">>)
AdditiveOp(s, left) == BinaryLevel(s, left, <<"+", "-">>)
ComparisonOp(s, left) == BinaryLevel(s, left, <<">=", "<=", ">", "<">>)
EqualityOp(s, left) == BinaryLevel(s, left, <<"==", "!=">>)
LogicalAndOp(s, left) == BinaryLevel(s, left, <<"&&">>)
LogicalOrOp(s, left) == BinaryLevel(s, left, <<"||">>)

\* BinaryOp = LogicalOrOp, which goes down to _expr_term through the six
\* levels and comes back up through them
BinaryOp(s, p, h) ==
    LET term == Rule("_expr_term", s, p, h)
        level6 == MultiplicativeOp(s, term)
        level5 == AdditiveOp(s, level6)
        level4 == ComparisonOp(s, level5)
        level3 == EqualityOp(s, level4)
        level2 == LogicalAndOp(s, level3)
        level1 == LogicalOrOp(s, level2)
    IN CASE ~term.ok -> term
         [] ~level6.ok -> level6
         [] ~level5.ok -> level5
         [] ~level4.ok -> level4
         [] ~level3.ok -> level3
         [] ~level2.ok -> level2
         [] OTHER -> level1

\* head:BinaryOp tail:(_ "?" _ Expression _ ":" _ Expression)?
\*   { return tail ? { type: ConditionalOperator, ... } : head }
Conditional(s, p, h) ==
    LET head == Rule("BinaryOp", s, p, h)
        trueExpr == Then(s, Then(s, ThenLit(s, Then(s, head, "_"), "?"), "_"), "Expression")
        falseExpr == Then(s, Then(s, ThenLit(s, Then(s, trueExpr, "_"), ":"), "_"), "Expression")
    IN CASE ~head.ok -> head
         [] ~trueExpr.ok -> OptOr(head, trueExpr, head.val)
         [] ~falseExpr.ok -> OptOr(head, falseExpr, head.val)
         [] OTHER -> Ok(falseExpr.pos, falseExpr.hm,
                        [type |-> "ConditionalOperator", predicate |-> head.val,
                         trueExpr |-> trueExpr.val, falseExpr |-> falseExpr.val])

\* Expression = head:BinaryOp tail:(...)? / UnaryOp / _expr_term
Expression(s, p, h) ==
    LET a1 == Rule("Conditional", s, p, h)
        a2 == Else(s, p, a1, "UnaryOp")
    IN CASE Done(a1) -> a1
         [] Done(a2) -> a2
         [] OTHER -> Rule("_expr_term", s, p, a2.hm)


\* ------------------------------------------------------------------------
\* Collections and for-expressions
\* ------------------------------------------------------------------------

\* ("," / NewLine), the separator of the elements of _tuple
Separator(s, p, h) == Else(s, p, Literal(s, p, h, ","), "NewLine")

\* _ ("," / NewLine) _ Expression: a separator and the next element
NextElement(s, p, h) ==
    Then(s, Then(s, Then(s, Rule("_", s, p, h), "Separator"), "_"), "Expression")

\* Expression|.., _ ("," / NewLine) _|
Elements(s, p, h) ==
    LET first == Rule("Expression", s, p, h)
        rest == ThenStar(s, first, "NextElement")
    IN CASE first.thrown -> first
         [] ~first.ok -> Ok(p, first.hm, <<>>)
         [] ~rest.ok -> rest
         [] OTHER -> Ok(rest.pos, rest.hm, <<first.val>> \o rest.val)

\* _tuple = _ "[" __ !"for" elements:Expression|.., _ ("," / NewLine) _| __ "]" _
tuple(s, p, h) ==
    LET elements ==
            Then(s, ThenNot(s, Then(s, ThenLit(s, Rule("_", s, p, h), "["), "__"), "for"), "Elements")
        close == Then(s, ThenLit(s, Then(s, elements, "__"), "]"), "_")
    IN CASE ~elements.ok -> elements
         [] ~close.ok -> close
         [] OTHER -> Ok(close.pos, close.hm, [type |-> "TupleValue", elements |-> elements.val])

\* (_ "," / NewLine / __), the end of _objectelem
ElementEnd(s, p, h) ==
    Else(s, p, Else(s, p, ThenLit(s, Rule("_", s, p, h), ","), "NewLine"), "__")

\* _objectelem = __ key:Identifier _ ("=" / ":") _ value:Expression (_ "," / NewLine / __)
objectelem(s, p, h) ==
    LET key == Then(s, Rule("__", s, p, h), "Identifier")
        value == Then(s, Then(s, ThenAny(s, Then(s, key, "_"), <<"=", ":">>), "_"), "Expression")
        end == Then(s, value, "ElementEnd")
    IN CASE ~value.ok -> value
         [] ~end.ok -> end
         [] OTHER -> Ok(end.pos, end.hm, [key |-> key.val, value |-> value.val])

\* (__ _objectelem) of _object_content
NextObjectElem(s, p, h) == Then(s, Rule("__", s, p, h), "_objectelem")

\* _object_content = first:_objectelem rest:(__ _objectelem)*
\*   { return [first, ...rest.map(r => r[1])] }
object_content(s, p, h) ==
    LET first == Rule("_objectelem", s, p, h)
        rest == ThenStar(s, first, "NextObjectElem")
    IN CASE ~first.ok -> first
         [] ~rest.ok -> rest
         [] OTHER -> Ok(rest.pos, rest.hm, <<first.val>> \o rest.val)

\* _object = _ "{" __ !"for" elements:(_object_content)? __ "}"
\*   { return { type: ObjectValue, elements: elements || [] } }
object(s, p, h) ==
    LET elements ==
            OptRule(s, ThenNot(s, Then(s, ThenLit(s, Rule("_", s, p, h), "{"), "__"), "for"),
                    "_object_content")
        close == ThenLit(s, Then(s, elements, "__"), "}")
    IN CASE ~elements.ok -> elements
         [] ~close.ok -> close
         [] OTHER -> Ok(close.pos, close.hm, [type |-> "ObjectValue", elements |-> elements.val])

\* CollectionValue = _tuple / _object
CollectionValue(s, p, h) == Else(s, p, Rule("_tuple", s, p, h), "_object")

\* ("," _ value:Identifier) of _for_intro and of TemplateFor; val is the
\* identifier
ForValue(s, p, h) == Then(s, Then(s, Literal(s, p, h, ","), "_"), "Identifier")

\* _for_intro = "for" _ key:Identifier _ v:("," _ value:Identifier)? _
\*              "in" _ collection:Expression _ ":"
\*   { return { iterator: key, value: v?.value || null, collection } }
\* v is the array [",", ws, Identifier] of the unplucked sequence, which has
\* no property "value", so the returned value is null in both cases
for_intro(s, p, h) ==
    LET key == Then(s, Then(s, Literal(s, p, h, "for"), "_"), "Identifier")
        v == OptRule(s, Then(s, key, "_"), "ForValue")
        collection == Then(s, Then(s, ThenLit(s, Then(s, v, "_"), "in"), "_"), "Expression")
        colon == ThenLit(s, Then(s, collection, "_"), ":")
    IN CASE ~collection.ok -> collection
         [] ~colon.ok -> colon
         [] OTHER -> Ok(colon.pos, colon.hm,
                        [iterator |-> key.val, value |-> Null, collection |-> collection.val])

\* _for_cond = "if" _ expr:Expression { return expr }
for_cond(s, p, h) == Then(s, Then(s, Literal(s, p, h, "if"), "_"), "Expression")

\* ForTupleExpr = "[" __ intro:_for_intro __ expression:Expression __
\*                condition:_for_cond? __ "]"
ForTupleExpr(s, p, h) ==
    LET intro == Then(s, Then(s, Literal(s, p, h, "["), "__"), "_for_intro")
        expression == Then(s, Then(s, intro, "__"), "Expression")
        condition == OptRule(s, Then(s, expression, "__"), "_for_cond")
        close == ThenLit(s, Then(s, condition, "__"), "]")
    IN CASE ~intro.ok -> intro
         [] ~expression.ok -> expression
         [] ~condition.ok -> condition
         [] ~close.ok -> close
         [] OTHER -> Ok(close.pos, close.hm,
                        [type |-> "ForExpression", kind |-> "tuple", intro |-> intro.val,
                         expression |-> expression.val, condition |-> condition.val])

\* (_ "...") of ForObjectExpr
Ellipsis(s, p, h) == ThenLit(s, Rule("_", s, p, h), "...")

\* !!ellipsis where m ended
Grouping(s, m) ==
    CASE ~m.ok -> m
      [] Ellipsis(s, m.pos, m.hm).ok -> Ok(Ellipsis(s, m.pos, m.hm).pos, m.hm, TRUE)
      [] OTHER -> Ok(m.pos, m.hm, FALSE)

\* ForObjectExpr = "{" __ intro:_for_intro __ key:Expression __ "=>" __ value:Expression
\*                 ellipsis:(_ "...")? __ condition:_for_cond? __ "}"
ForObjectExpr(s, p, h) ==
    LET intro == Then(s, Then(s, Literal(s, p, h, "{"), "__"), "_for_intro")
        key == Then(s, Then(s, intro, "__"), "Expression")
        value == Then(s, Then(s, ThenLit(s, Then(s, key, "__"), "=>"), "__"), "Expression")
        ellipsis == Grouping(s, value)
        condition == OptRule(s, Then(s, ellipsis, "__"), "_for_cond")
        close == ThenLit(s, Then(s, condition, "__"), "}")
    IN CASE ~intro.ok -> intro
         [] ~key.ok -> key
         [] ~value.ok -> value
         [] ~condition.ok -> condition
         [] ~close.ok -> close
         [] OTHER -> Ok(close.pos, close.hm,
                        [type |-> "ForExpression", kind |-> "object", intro |-> intro.val,
                         key |-> key.val, value |-> value.val, grouping |-> ellipsis.val,
                         condition |-> condition.val])

\* ForExpr = ForTupleExpr / ForObjectExpr
ForExpr(s, p, h) == Else(s, p, Rule("ForTupleExpr", s, p, h), "ForObjectExpr")


\* ------------------------------------------------------------------------
\* Templates. The register h is <<>> for null and <<m>> once a heredoc with
\* marker m has begun.
\* ------------------------------------------------------------------------

\* _endMarker = NewLine? _ end:Identifier &{ return heredocMarker === end.value } _
endMarker(s, p, h) ==
    LET end == Then(s, Then(s, OptRule(s, Ok(p, h, Null), "NewLine"), "_"), "Identifier")
    IN IF end.ok /\ end.hm = <<end.val.value>> THEN Then(s, end, "_") ELSE Fail(h)

\* the end of (!("${" / "%{" / _endMarker) .)*
RECURSIVE TemplateLiteralEnd(_, _, _)
TemplateLiteralEnd(s, p, h) ==
    IF p > Len(s) \/ StartsWith(s, p, "${") \/ StartsWith(s, p, "%{") \/ Rule("_endMarker", s, p, h).ok
    THEN p
    ELSE TemplateLiteralEnd(s, p + 1, h)

\* the characters s[p..q-1] as a TemplateLiteral, which needs one at least
TemplateLiteralOf(s, p, q, h) ==
    IF q = p THEN Fail(h)
    ELSE Ok(q, h, [type |-> "TemplateLiteral", value |-> Join(SubSeq(s, p, q - 1))])

\* TemplateLiteral = chars:(!("${" / "%{" / _endMarker) .)+
TemplateLiteral(s, p, h) == TemplateLiteralOf(s, p, TemplateLiteralEnd(s, p, h), h)

\* TemplateInterpolation = "${" strip_left:"~"? _ expression:Expression _ strip_right:"~"? "}"
TemplateInterpolation(s, p, h) ==
    LET strip_left == Flag(s, Literal(s, p, h, "${"), "~")
        expression == Then(s, Then(s, strip_left, "_"), "Expression")
        strip_right == Flag(s, Then(s, expression, "_"), "~")
        close == ThenLit(s, strip_right, "}")
    IN CASE ~expression.ok -> expression
         [] ~close.ok -> close
         [] OTHER -> Ok(close.pos, close.hm,
                        [type |-> "TemplateInterpolation", expression |-> expression.val,
                         strip |-> [left |-> strip_left.val, right |-> strip_right.val]])

\* "%{" start:"~"? _ keyword _ end:"~"? "}" for else, endif and endfor; val
\* is { start: !!start, end: !!end }
DirectiveTag(s, p, h, keyword) ==
    LET start == Flag(s, Literal(s, p, h, "%{"), "~")
        end == Flag(s, Then(s, ThenLit(s, Then(s, start, "_"), keyword), "_"), "~")
        close == ThenLit(s, end, "}")
    IN IF close.ok THEN Ok(close.pos, close.hm, [start |-> start.val, end |-> end.val]) ELSE close

\* else_part of TemplateIf: "%{" "~"? _ "else" _ "~"? "}" else_template:Template
\*   { return { template: else_template, strip: { start, end } } }
ElsePart(s, p, h) ==
    LET tag == DirectiveTag(s, p, h, "else")
        else_template == Then(s, tag, "Template")
    IN IF else_template.ok
       THEN Ok(else_template.pos, else_template.hm, [template |-> else_template.val, strip |-> tag.val])
       ELSE else_template

EndIf(s, p, h) == DirectiveTag(s, p, h, "endif")
EndFor(s, p, h) == DirectiveTag(s, p, h, "endfor")

\* else_part? where m ended; else_part?.template || null and
\* else_part?.strip || null are both null without one
OptElsePart(s, m) == OptOr(m, Then(s, m, "ElsePart"), [template |-> Null, strip |-> Null])

\* TemplateIf = "%{" "~"? _ "if" _ condition:Expression _ "~"? "}" then_template:Template
\*              else_part:("%{" "~"? _ "else" _ "~"? "}" else_template:Template)?
\*              "%{" "~"? _ "endif" _ "~"? "}"
TemplateIf(s, p, h) ==
    LET strip_start == Flag(s, Literal(s, p, h, "%{"), "~")
        condition == Then(s, Then(s, ThenLit(s, Then(s, strip_start, "_"), "if"), "_"), "Expression")
        strip_end == Flag(s, Then(s, condition, "_"), "~")
        then_template == Then(s, ThenLit(s, strip_end, "}"), "Template")
        else_part == OptElsePart(s, then_template)
        endif == Then(s, else_part, "EndIf")
    IN CASE ~condition.ok -> condition
         [] ~then_template.ok -> then_template
         [] ~else_part.ok -> else_part
         [] ~endif.ok -> endif
         [] OTHER -> Ok(endif.pos, endif.hm,
                        [type |-> "TemplateIf",
                         condition |-> condition.val,
                         then |-> then_template.val,
                         else |-> else_part.val.template,
                         strip |-> [if |-> [start |-> strip_start.val, end |-> strip_end.val],
                                    else |-> else_part.val.strip,
                                    endif |-> endif.val]])

\* TemplateFor = "%{" "~"? _ "for" _ key:Identifier _ v:("," _ value:Identifier { return value })? _
\*               "in" _ collection:Expression _ "~"? "}" body:Template
\*               "%{" "~"? _ "endfor" _ "~"? "}"
TemplateFor(s, p, h) ==
    LET strip_start == Flag(s, Literal(s, p, h, "%{"), "~")
        key == Then(s, Then(s, ThenLit(s, Then(s, strip_start, "_"), "for"), "_"), "Identifier")
        v == OptRule(s, Then(s, key, "_"), "ForValue")
        collection == Then(s, Then(s, ThenLit(s, Then(s, v, "_"), "in"), "_"), "Expression")
        strip_end == Flag(s, Then(s, collection, "_"), "~")
        body == Then(s, ThenLit(s, strip_end, "}"), "Template")
        endfor == Then(s, body, "EndFor")
    IN CASE ~collection.ok -> collection
         [] ~body.ok -> body
         [] ~endfor.ok -> endfor
         [] OTHER -> Ok(endfor.pos, endfor.hm,
                        [type |-> "TemplateFor",
                         intro |-> [key |-> key.val, value |-> v.val, collection |-> collection.val],
                         body |-> body.val,
                         strip |-> [for |-> [start |-> strip_start.val, end |-> strip_end.val],
                                    endfor |-> endfor.val]])

\* TemplateDirective = TemplateIf / TemplateFor
TemplateDirective(s, p, h) == Else(s, p, Rule("TemplateIf", s, p, h), "TemplateFor")

\* (TemplateLiteral / TemplateInterpolation / TemplateDirective) of Template
TemplatePart(s, p, h) ==
    LET a1 == Rule("TemplateLiteral", s, p, h)
        a2 == Else(s, p, a1, "TemplateInterpolation")
    IN CASE Done(a1) -> a1
         [] Done(a2) -> a2
         [] OTHER -> Rule("TemplateDirective", s, p, a2.hm)

\* Template = parts:(...)* { return parts.flat() }
Template(s, p, h) == Star(s, p, h, "TemplatePart", <<>>)

\* HeredocTemplateContent = Template
HeredocTemplateContent(s, p, h) == Rule("Template", s, p, h)

\* _beginMarker = begin:Identifier { heredocMarker = begin.value; return begin; }
beginMarker(s, p, h) ==
    LET begin == Rule("Identifier", s, p, h)
    IN IF begin.ok THEN Ok(begin.pos, <<begin.val.value>>, begin.val) ELSE begin

\* HeredocTemplate = _ "<<" indent:("-"/"") _ marker:_beginMarker _ NewLine
\*                   template:HeredocTemplateContent _endMarker
\*   { return { ..., stripIndent: indent === "-", template } }
HeredocTemplate(s, p, h) ==
    LET indent == Flag(s, ThenLit(s, Rule("_", s, p, h), "<<"), "-")
        marker == Then(s, Then(s, indent, "_"), "_beginMarker")
        template == Then(s, Then(s, Then(s, marker, "_"), "NewLine"), "HeredocTemplateContent")
        end == Then(s, template, "_endMarker")
    IN CASE ~template.ok -> template
         [] ~end.ok -> end
         [] OTHER -> Ok(end.pos, end.hm,
                        [type |-> "HeredocTemplateExpression", marker |-> marker.val,
                         stripIndent |-> indent.val, template |-> template.val])

\* chars:_template_char+ { return { type: TemplateLiteral, value: chars.join('') } },
\* the last alternative of QuotedTemplateContent
TemplateChars(s, p, h) ==
    LET chars == Star(s, p, h, "_template_char", <<>>)
    IN CASE ~chars.ok -> chars
         [] chars.val = <<>> -> Fail(chars.hm)
         [] OTHER -> Ok(chars.pos, chars.hm, [type |-> "TemplateLiteral", value |-> Join(chars.val)])

\* QuotedTemplateContent = TemplateInterpolation / TemplateDirective / chars:_template_char+
QuotedTemplateContent(s, p, h) ==
    LET a1 == Rule("TemplateInterpolation", s, p, h)
        a2 == Else(s, p, a1, "TemplateDirective")
    IN CASE Done(a1) -> a1
         [] Done(a2) -> a2
         [] OTHER -> Rule("TemplateChars", s, p, a2.hm)

\* QuotedTemplate = '"' content:QuotedTemplateContent* '"'
QuotedTemplate(s, p, h) ==
    LET content == ThenStar(s, Literal(s, p, h, "\""), "QuotedTemplateContent")
        close == ThenLit(s, content, "\"")
    IN CASE ~content.ok -> content
         [] ~close.ok -> close
         [] OTHER -> Ok(close.pos, close.hm,
                        [type |-> "QuotedTemplateExpression", parts |-> content.val])

\* TemplateExpr = QuotedTemplate / HeredocTemplate
TemplateExpr(s, p, h) == Else(s, p, Rule("QuotedTemplate", s, p, h), "HeredocTemplate")


\* ------------------------------------------------------------------------
\* Structural elements
\* ------------------------------------------------------------------------

\* Attribute = _ name:Identifier _ "=" _ value:Expression _ _terminator
Attribute(s, p, h) ==
    LET name == Then(s, Rule("_", s, p, h), "Identifier")
        value == Then(s, Then(s, ThenLit(s, Then(s, name, "_"), "="), "_"), "Expression")
        end == Then(s, Then(s, value, "_"), "_terminator")
    IN CASE ~value.ok -> value
         [] ~end.ok -> end
         [] OTHER -> Ok(end.pos, end.hm, [type |-> "Attribute", name |-> name.val, value |-> value.val])

\* (StringLit / Identifier) of _labels
Label(s, p, h) == Else(s, p, Rule("StringLit", s, p, h), "Identifier")

\* _labels = _ label:(StringLit / Identifier) { return label }
Labels(s, p, h) == Then(s, Rule("_", s, p, h), "Label")

\* attr:(Identifier _ "=" _ Expression) of OneLineBlock, as the attribute
\* the action makes of it: { type: Attribute, name: attr[0], value: attr[4] }
OneLineAttribute(s, p, h) ==
    LET name == Rule("Identifier", s, p, h)
        value == Then(s, Then(s, ThenLit(s, Then(s, name, "_"), "="), "_"), "Expression")
    IN IF value.ok
       THEN Ok(value.pos, value.hm, [type |-> "Attribute", name |-> name.val, value |-> value.val])
       ELSE value

\* OneLineBlock = _ blockType:Identifier _ labels:(_labels)* _ "{"
\*                _ attr:(Identifier _ "=" _ Expression)? _ "}" _ _terminator
OneLineBlock(s, p, h) ==
    LET blockType == Then(s, Rule("_", s, p, h), "Identifier")
        labelList == ThenStar(s, Then(s, blockType, "_"), "_labels")
        attr == OptRule(s, Then(s, ThenLit(s, Then(s, labelList, "_"), "{"), "_"), "OneLineAttribute")
        end == Then(s, Then(s, ThenLit(s, Then(s, attr, "_"), "}"), "_"), "_terminator")
    IN CASE ~attr.ok -> attr
         [] ~end.ok -> end
         [] OTHER -> Ok(end.pos, end.hm,
                        [type |-> "OneLineBlock", blockType |-> blockType.val,
                         labels |-> labelList.val, attribute |-> attr.val])

\* Block = _ blockType:Identifier _ labels:(_labels)* _ "{" __ bodies:Bodies? __ "}" _ _terminator
Block(s, p, h) ==
    LET blockType == Then(s, Rule("_", s, p, h), "Identifier")
        labelList == ThenStar(s, Then(s, blockType, "_"), "_labels")
        bodies == OptRule(s, Then(s, ThenLit(s, Then(s, labelList, "_"), "{"), "__"), "Bodies")
        end == Then(s, Then(s, ThenLit(s, Then(s, bodies, "__"), "}"), "_"), "_terminator")
    IN CASE ~bodies.ok -> bodies
         [] ~end.ok -> end
         [] OTHER -> Ok(end.pos, end.hm,
                        [type |-> "Block", blockType |-> blockType.val,
                         labels |-> labelList.val, bodies |-> bodies.val])

\* a BodyElement that tries OneLineBlock before Block
BodyElementOneLineFirst(s, p, h) ==
    LET a1 == Rule("Attribute", s, p, h)
        a2 == Else(s, p, a1, "OneLineBlock")
    IN CASE Done(a1) -> a1
         [] Done(a2) -> a2
         [] OTHER -> Rule("Block", s, p, a2.hm)

\* BodyElement = Attribute / Block / OneLineBlock
BodyElement(s, p, h) ==
    LET a1 == Rule("Attribute", s, p, h)
        a2 == Else(s, p, a1, "Block")
    IN CASE Done(a1) -> a1
         [] Done(a2) -> a2
         [] OTHER -> Rule("OneLineBlock", s, p, a2.hm)

\* (__ item:BodyElement __ { return item }) of Bodies
BodyItem(s, p, h) ==
    LET item == Then(s, Rule("__", s, p, h), "BodyElement")
        end == Then(s, item, "__")
    IN IF item.ok THEN Ok(end.pos, end.hm, item.val) ELSE item

\* Bodies = __ items:(__ item:BodyElement __ { return item })* { return items }
Bodies(s, p, h) == ThenStar(s, Rule("__", s, p, h), "BodyItem")

\* ConfigFile = __ bodies:Bodies __ { return bodies }
ConfigFile(s, p, h) ==
    LET bodies == Then(s, Rule("__", s, p, h), "Bodies")
        end == Then(s, bodies, "__")
    IN IF bodies.ok THEN Ok(end.pos, end.hm, bodies.val) ELSE bodies

\* the rules of the grammar by name; a parenthesised part of a rule that
\* has no name in the grammar goes by the name of its definition here
Rule(name, s, p, h) ==
    CASE name = "_" -> Lexical(wsStar(s, p), h)
      [] name = "__" -> Lexical(emptyLines(s, p), h)
      [] name = "NewLine" -> Lexical(NewLine(s, p), h)
      [] name = "_terminator" -> Lexical(terminator(s, p), h)
      [] name = "Identifier" -> Identifier(s, p, h)
      [] name = "Expression" -> Expression(s, p, h)
      [] name = "Conditional" -> Conditional(s, p, h)
      [] name = "BinaryOp" -> BinaryOp(s, p, h)
      [] name = "_expr_term" -> expr_term(s, p, h)
      [] name = "UnaryOp" -> UnaryOp(s, p, h)
      [] name = "TemplateExpr" -> TemplateExpr(s, p, h)
      [] name = "LiteralValue" -> LiteralValue(s, p, h)
      [] name = "FunctionCall" -> FunctionCall(s, p, h)
      [] name = "CollectionValue" -> CollectionValue(s, p, h)
      [] name = "VariableExpr" -> VariableExpr(s, p, h)
      [] name = "ForExpr" -> ForExpr(s, p, h)
      [] name = "Parenthesized" -> Parenthesized(s, p, h)
      [] name = "PostfixOp" -> PostfixOp(s, p, h)
      [] name = "Index" -> Index(s, p, h)
      [] name = "BracketIndex" -> BracketIndex(s, p, h)
      [] name = "LegacyIndex" -> LegacyIndex(s, p, h)
      [] name = "GetAttr" -> GetAttr(s, p, h)
      [] name = "Splat" -> Splat(s, p, h)
      [] name = "AttrSplat" -> AttrSplat(s, p, h)
      [] name = "FullSplat" -> FullSplat(s, p, h)
      [] name = "SplatOperation" -> SplatOperation(s, p, h)
      [] name = "NumericLit" -> NumericLit(s, p, h)
      [] name = "TrueLit" -> TrueLit(s, p, h)
      [] name = "FalseLit" -> FalseLit(s, p, h)
      [] name = "NullLit" -> NullLit(s, p, h)
      [] name = "StringLit" -> StringLit(s, p, h)
      [] name = "_char" -> char(s, p, h)
      [] name = "PlainChar" -> PlainChar(s, p, h)
      [] name = "_template_char" -> template_char(s, p, h)
      [] name = "PlainTemplateChar" -> PlainTemplateChar(s, p, h)
      [] name = "_escape_seq" -> escape_seq(s, p, h)
      [] name = "_template_escape" -> template_escape(s, p, h)
      [] name = "_function_args" -> function_args(s, p, h)
      [] name = "SomeArgs" -> SomeArgs(s, p, h)
      [] name = "NextArg" -> NextArg(s, p, h)
      [] name = "NoArgs" -> NoArgs(s, p, h)
      [] name = "_tuple" -> tuple(s, p, h)
      [] name = "Elements" -> Elements(s, p, h)
      [] name = "NextElement" -> NextElement(s, p, h)
      [] name = "Separator" -> Separator(s, p, h)
      [] name = "_object" -> object(s, p, h)
      [] name = "_object_content" -> object_content(s, p, h)
      [] name = "_objectelem" -> objectelem(s, p, h)
      [] name = "NextObjectElem" -> NextObjectElem(s, p, h)
      [] name = "ElementEnd" -> ElementEnd(s, p, h)
      [] name = "ForTupleExpr" -> ForTupleExpr(s, p, h)
      [] name = "ForObjectExpr" -> ForObjectExpr(s, p, h)
      [] name = "_for_intro" -> for_intro(s, p, h)
      [] name = "ForValue" -> ForValue(s, p, h)
      [] name = "_for_cond" -> for_cond(s, p, h)
      [] name = "QuotedTemplate" -> QuotedTemplate(s, p, h)
      [] name = "QuotedTemplateContent" -> QuotedTemplateContent(s, p, h)
      [] name = "TemplateChars" -> TemplateChars(s, p, h)
      [] name = "HeredocTemplate" -> HeredocTemplate(s, p, h)
      [] name = "_beginMarker" -> beginMarker(s, p, h)
      [] name = "_endMarker" -> endMarker(s, p, h)
      [] name = "HeredocTemplateContent" -> HeredocTemplateContent(s, p, h)
      [] name = "Template" -> Template(s, p, h)
      [] name = "TemplatePart" -> TemplatePart(s, p, h)
      [] name = "TemplateLiteral" -> TemplateLiteral(s, p, h)
      [] name = "TemplateInterpolation" -> TemplateInterpolation(s, p, h)
      [] name = "TemplateDirective" -> TemplateDirective(s, p, h)
      [] name = "TemplateIf" -> TemplateIf(s, p, h)
      [] name = "ElsePart" -> ElsePart(s, p, h)
      [] name = "EndIf" -> EndIf(s, p, h)
      [] name = "TemplateFor" -> TemplateFor(s, p, h)
      [] name = "EndFor" -> EndFor(s, p, h)
      [] name = "Attribute" -> Attribute(s, p, h)
      [] name = "Block" -> Block(s, p, h)
      [] name = "OneLineBlock" -> OneLineBlock(s, p, h)
      [] name = "OneLineAttribute" -> OneLineAttribute(s, p, h)
      [] name = "_labels" -> Labels(s, p, h)
      [] name = "Label" -> Label(s, p, h)
      [] name = "BodyElement" -> BodyElement(s, p, h)
      [] name = "BodyItem" -> BodyItem(s, p, h)
      [] name = "Bodies" -> Bodies(s, p, h)
      [] name = "ConfigFile" -> ConfigFile(s, p, h)

\* ------------------------------------------------------------------------
\* The generated parser and its wrappers
\* ------------------------------------------------------------------------

\* a register declared outside the per-parse initializer
InitialMarkerShared(previous) == previous

\* the per-parse initializer of the grammar: let heredocMarker = null
InitialMarker(previous) == <<>>

\* what peg$parse makes of the result r of the start rule on an input of n
\* characters: input left over is a SyntaxError
pegResult(r, n) ==
    CASE r.thrown -> [ok |-> FALSE, error |-> "RangeError", ast |-> Null, hm |-> r.hm]
      [] r.ok /\ r.pos = n + 1 -> [ok |-> TRUE, error |-> "", ast |-> r.val, hm |-> r.hm]
      [] OTHER -> [ok |-> FALSE, error |-> "SyntaxError", ast |-> Null, hm |-> r.hm]

\* peg$parse(input, { startRule: "ConfigFile" }) with the register left by
\* the previous call: the initializer runs and the start rule is matched at
\* the first character
pegParse(text, previous) ==
    pegResult(Rule("ConfigFile", Chars(text), 1, InitialMarker(previous)), Len(text))

\* export function parse(input): the AST or the error thrown, and the
\* register as the call leaves it
parse(text, previous) == pegParse(text, previous)

\* { success: true, data } whatever r is
AlwaysSuccess(r) == [value |-> [success |-> TRUE, data |-> r.ast], hm |-> r.hm]

\* try { return { success: true, data: r } } catch (error) { return {
\* success: false, error } } for the outcome r of parse
TryCatch(r) ==
    [value |-> IF r.ok THEN [success |-> TRUE, data |-> r.ast]
               ELSE [success |-> FALSE, error |-> r.error],
     hm |-> r.hm]

\* a safeParse that reports success whatever parse did
safeParseAlwaysSuccess(text, previous) == AlwaysSuccess(parse(text, previous))

\* export function safeParse(input)
safeParse(text, previous) == TryCatch(parse(text, previous))

\* ------------------------------------------------------------------------
\* stringify.ts. A marshal function returns its text, or the error it
\* throws. A missing property reads as Null (undefined and null are both
\* falsy, and reading a property of either is a TypeError).
\* ------------------------------------------------------------------------

SOk(t) == [ok |-> TRUE, text |-> t, error |-> ""]
SThrow(e) == [ok |-> FALSE, text |-> "", error |-> e]

\* template-literal concatenation of already evaluated pieces: the first
\* piece that threw wins
RECURSIVE Concat(_)
Concat(rs) ==
    IF rs = <<>> THEN SOk("")
    ELSE IF ~Head(rs).ok THEN Head(rs)
    ELSE LET r == Concat(Tail(rs)) IN
         IF r.ok THEN SOk(Head(rs).text \o r.text) ELSE r

\* Array.prototype.join over already evaluated pieces
RECURSIVE JoinWith(_, _)
JoinWith(rs, sep) ==
    IF rs = <<>> THEN SOk("")
    ELSE IF Len(rs) = 1 THEN Head(rs)
    ELSE Concat(<<Head(rs), SOk(sep), JoinWith(Tail(rs), sep)>>)

\* the JavaScript kind of a value
IsArray(v) == SubSeq(ToString(v), 1, 1) = "<"
IsObject(v) == SubSeq(ToString(v), 1, 1) = "["
IsString(v) == SubSeq(ToString(v), 1, 1) = "\""
IsBoolean(v) == ToString(v) \in {"TRUE", "FALSE"}
IsNumber(v) == IsObject(v) /\ DOMAIN v = {"m", "e", "inf"}

Get(node, f) == IF IsObject(node) /\ f \in DOMAIN node THEN node[f] ELSE Null

\* part.type, undefined on an array
TypeOf(v) == IF IsArray(v) THEN "" ELSE v.type

\* escapeString: backslash, quote, newline, carriage return and tab
RECURSIVE escapeString(_)
escapeString(str) ==
    IF Len(str) = 0 THEN ""
    ELSE LET c == SubSeq(str, 1, 1)
             e == IF c = "\\" THEN "\\\\"
                  ELSE IF c = "\"" THEN "\\\""
                  ELSE IF c = "\n" THEN "\\n"
                  ELSE IF c = "\r" THEN "\\r"
                  ELSE IF c = "\t" THEN "\\t"
                  ELSE c
         IN e \o escapeString(SubSeq(str, 2, Len(str)))

marshalIdentifier(identifier) ==
    IF identifier = Null THEN SThrow("TypeError") ELSE SOk(identifier.value)

marshalLabel(label) ==
    IF label.type = "StringLiteral" THEN SOk("\"" \o escapeString(label.value) \o "\"")
    ELSE marshalIdentifier(label)

precedence(operator) ==
    CASE operator \in {"*", "/", "%"} -> 5
      [] operator \in {"+", "-"} -> 4
      [] operator \in {">", ">=", "<", "<="} -> 3
      [] operator \in {"==", "!="} -> 2
      [] operator = "&&" -> 1
      [] OTHER -> 0

strip(flag) == IF flag THEN "~" ELSE ""

RECURSIVE marshalExpression(_)
RECURSIVE marshalTemplateContent(_)

\* ${left}${expr}${right} of a TemplateInterpolation
marshalInterpolation(interp) ==
    Concat(<<SOk("${"), SOk(strip(interp.strip.left)), marshalExpression(interp.expression),
             SOk(strip(interp.strip.right)), SOk("}")>>)

marshalTupleValue(tupleValue) ==
    IF tupleValue.elements = <<>> THEN SOk("[]")
    ELSE Concat(<<SOk("["),
                  JoinWith([i \in 1..Len(tupleValue.elements) |->
                               marshalExpression(tupleValue.elements[i])], ", "),
                  SOk("]")>>)

marshalObjectValue(obj) ==
    IF obj.elements = <<>> THEN SOk("{}")
    ELSE Concat(<<SOk("{ "),
                  JoinWith([i \in 1..Len(obj.elements) |->
                               Concat(<<marshalIdentifier(obj.elements[i].key), SOk(" = "),
                                        marshalExpression(obj.elements[i].value)>>)], ", "),
                  SOk(" }")>>)

marshalQuotedPart(part) ==
    IF part.type = "TemplateLiteral" THEN SOk(escapeString(part.value))
    ELSE IF part.type = "TemplateInterpolation" THEN marshalInterpolation(part)
    ELSE IF part.type \in {"TemplateIf", "TemplateFor"}
         THEN SOk("%{/* Template directive not fully implemented */}")
    ELSE SOk("")

marshalQuotedTemplate(template) ==
    Concat(<<SOk("\""),
             JoinWith([i \in 1..Len(template.parts) |-> marshalQuotedPart(template.parts[i])], ""),
             SOk("\"")>>)

marshalHeredocTemplate(heredoc) ==
    LET marker == marshalIdentifier(heredoc.marker)
    IN Concat(<<SOk("<<"), SOk(IF heredoc.stripIndent THEN "-" ELSE ""), marker, SOk("\n"),
                marshalTemplateContent(heredoc.template), SOk("\n"), marker>>)

\* the callback of template.map in marshalTemplateContent
marshalTemplatePart(part) ==
    LET partType == TypeOf(part) IN
    IF partType = "TemplateLiteral" THEN SOk(part.value)
    ELSE IF partType = "TemplateInterpolation" THEN marshalInterpolation(part)
    ELSE IF partType = "TemplateIf"
    THEN LET condition == marshalExpression(part.condition)
             thenContent == marshalTemplateContent(<<part.then>>)
             elseContent == IF part.else = Null THEN SOk("")
                            ELSE marshalTemplateContent(<<part.else>>)
         IN Concat(<<SOk("%{if "), condition, SOk("}"), thenContent,
                     IF elseContent.ok /\ elseContent.text # ""
                     THEN Concat(<<SOk("%{else}"), elseContent>>) ELSE elseContent,
                     SOk("%{endif}")>>)
    ELSE IF partType = "TemplateFor"
    THEN LET key == marshalIdentifier(Get(part, "key"))
             value == IF Get(part, "value") = Null THEN SOk("")
                      ELSE marshalIdentifier(Get(part, "value"))
             collection == marshalExpression(Get(part, "collection"))
             body == marshalTemplateContent(<<Get(part, "body")>>)
             iterDecl == IF value.ok /\ value.text # ""
                         THEN Concat(<<key, SOk(", "), value>>) ELSE Concat(<<key, value>>)
         IN Concat(<<SOk("%{for "), iterDecl, SOk(" in "), collection, SOk("}"), body,
                     SOk("%{endfor}")>>)
    ELSE SOk("")

marshalTemplateContent(template) ==
    JoinWith([i \in 1..Len(template) |-> marshalTemplatePart(template[i])], "")

marshalFunctionCall(func) ==
    Concat(<<marshalIdentifier(func.name), SOk("("),
             JoinWith([i \in 1..Len(func.args) |-> marshalExpression(func.args[i])], ", "),
             SOk(")")>>)

marshalVariableExpression(variable) == marshalIdentifier(variable.name)

marshalForExpression(forExpr) ==
    LET intro == forExpr.intro
        iterator == marshalIdentifier(intro.iterator)
        value == IF intro.value = Null THEN SOk("") ELSE marshalIdentifier(intro.value)
        collection == marshalExpression(intro.collection)
        condition == marshalExpression(forExpr.condition)
        introStr == IF value.ok /\ value.text # ""
                    THEN Concat(<<SOk("for "), iterator, SOk(", "), value, SOk(" in "), collection, SOk(":")>>)
                    ELSE Concat(<<SOk("for "), iterator, value, SOk(" in "), collection, SOk(":")>>)
        conditionStr == IF condition.ok /\ condition.text # ""
                        THEN Concat(<<SOk(" if "), condition>>) ELSE condition
    IN IF ~introStr.ok THEN introStr
       ELSE IF ~conditionStr.ok THEN conditionStr
       ELSE IF forExpr.kind = "tuple"
       THEN Concat(<<SOk("["), introStr, SOk(" "), marshalExpression(forExpr.expression),
                     conditionStr, SOk("]")>>)
       ELSE IF forExpr.kind = "object"
       THEN Concat(<<SOk("{"), introStr, SOk(" "), marshalExpression(forExpr.key), SOk(" => "),
                     marshalExpression(forExpr.value),
                     SOk(IF forExpr.grouping THEN " ..." ELSE ""), conditionStr, SOk("}")>>)
       ELSE SThrow("Error")

marshalUnaryOperator(op) == Concat(<<SOk(op.operator), marshalExpression(op.term)>>)

Parens(r) == Concat(<<SOk("("), r, SOk(")")>>)

marshalBinaryOperator(op) ==
    LET currentPrecedence == precedence(op.operator)
        l == marshalExpression(op.left)
        left == IF op.left.type = "BinaryOperator"
                   /\ precedence(op.left.operator) < currentPrecedence
                THEN Parens(l) ELSE l
        r == marshalExpression(op.right)
        right == IF op.right.type = "BinaryOperator"
                    /\ precedence(op.right.operator) <= currentPrecedence
                    /\ op.operator # "||"
                    /\ op.operator # "&&"
                 THEN Parens(r) ELSE r
    IN Concat(<<left, SOk(" "), SOk(op.operator), SOk(" "), right>>)

marshalConditionalOperator(op) ==
    Concat(<<marshalExpression(op.predicate), SOk(" ? "), marshalExpression(op.trueExpr),
             SOk(" : "), marshalExpression(op.falseExpr)>>)

marshalIndexOperator(op) ==
    Concat(<<marshalExpression(op.target), SOk("["), marshalExpression(op.key), SOk("]")>>)

marshalLegacyIndexOperator(op) ==
    Concat(<<marshalExpression(op.target), SOk("."), SOk(NumberToString(op.key.value))>>)

marshalGetAttributeOperator(op) ==
    Concat(<<marshalExpression(op.target), SOk("."), marshalIdentifier(op.key)>>)

\* the callback of op.operations.map in marshalSplatOperator
marshalSplatOperation(operation) ==
    IF operation.type = "GetAttributeOperator"
    THEN Concat(<<SOk("."), marshalIdentifier(operation.key)>>)
    ELSE IF operation.type = "IndexOperator"
    THEN Concat(<<SOk("["), marshalExpression(operation.key), SOk("]")>>)
    ELSE SOk("")

marshalSplatOperator(op) ==
    LET target == marshalExpression(op.target) IN
    IF op.kind = "Attribute"
    THEN Concat(<<target, SOk(".*"),
                  JoinWith([i \in 1..Len(op.attributes) |->
                               Concat(<<SOk("."), marshalIdentifier(op.attributes[i].key)>>)], "")>>)
    ELSE IF op.kind = "Full"
    THEN Concat(<<target, SOk("[*]"),
                  JoinWith([i \in 1..Len(op.operations) |-> marshalSplatOperation(op.operations[i])], "")>>)
    ELSE IF target.ok THEN SThrow("Error") ELSE target

marshalExpression(expr) ==
    IF expr = Null THEN SOk("")
    ELSE IF expr.type = "StringLiteral" THEN SOk("\"" \o escapeString(expr.value) \o "\"")
    ELSE IF expr.type = "NumberLiteral" THEN SOk(NumberToString(expr.value))
    ELSE IF expr.type = "BooleanLiteral" THEN SOk(IF expr.value THEN "true" ELSE "false")
    ELSE IF expr.type = "NullLiteral" THEN SOk("null")
    ELSE IF expr.type = "TupleValue" THEN marshalTupleValue(expr)
    ELSE IF expr.type = "ObjectValue" THEN marshalObjectValue(expr)
    ELSE IF expr.type = "QuotedTemplateExpression" THEN marshalQuotedTemplate(expr)
    ELSE IF expr.type = "HeredocTemplateExpression" THEN marshalHeredocTemplate(expr)
    ELSE IF expr.type = "FunctionCallExpression" THEN marshalFunctionCall(expr)
    ELSE IF expr.type = "VariableExpression" THEN marshalVariableExpression(expr)
    ELSE IF expr.type = "ForExpression" THEN marshalForExpression(expr)
    ELSE IF expr.type = "UnaryOperator" THEN marshalUnaryOperator(expr)
    ELSE IF expr.type = "BinaryOperator" THEN marshalBinaryOperator(expr)
    ELSE IF expr.type = "ConditionalOperator" THEN marshalConditionalOperator(expr)
    ELSE IF expr.type = "IndexOperator" THEN marshalIndexOperator(expr)
    ELSE IF expr.type = "LegacyIndexOperator" THEN marshalLegacyIndexOperator(expr)
    ELSE IF expr.type = "GetAttributeOperator" THEN marshalGetAttributeOperator(expr)
    ELSE IF expr.type = "SplatOperator" THEN marshalSplatOperator(expr)
    ELSE SThrow("Error")

marshalAttribute(attr, indent) ==
    Concat(<<SOk(indent), marshalIdentifier(attr.name), SOk(" = "), marshalExpression(attr.value)>>)

marshalLabels(block) ==
    LET labels == JoinWith([i \in 1..Len(block.labels) |-> marshalLabel(block.labels[i])], " ")
    IN IF labels.ok /\ labels.text # "" THEN Concat(<<SOk(" "), labels>>) ELSE labels

marshalOneLineBlock(block, indent) ==
    LET head == Concat(<<SOk(indent), marshalIdentifier(block.blockType), marshalLabels(block)>>)
    IN IF block.attribute = Null THEN Concat(<<head, SOk(" {}")>>)
       ELSE Concat(<<head, SOk(" { "), marshalIdentifier(block.attribute.name), SOk(" = "),
                     marshalExpression(block.attribute.value), SOk(" }")>>)

RECURSIVE marshalConfigBody(_, _)

marshalBlock(block, indent) ==
    LET head == Concat(<<SOk(indent), marshalIdentifier(block.blockType), marshalLabels(block)>>)
    IN IF block.bodies = <<>> THEN Concat(<<head, SOk(" {}")>>)
       ELSE Concat(<<head, SOk(" {\n"),
                     JoinWith([i \in 1..Len(block.bodies) |->
                                  marshalConfigBody(block.bodies[i], indent \o "  ")], "\n"),
                     SOk("\n"), SOk(indent), SOk("}")>>)

marshalConfigBody(body, indent) ==
    IF body.type = "Attribute" THEN marshalAttribute(body, indent)
    ELSE IF body.type = "Block" THEN marshalBlock(body, indent)
    ELSE IF body.type = "OneLineBlock" THEN marshalOneLineBlock(body, indent)
    ELSE SThrow("Error")

marshalConfigFile(configFile) ==
    JoinWith([i \in 1..Len(configFile) |-> marshalConfigBody(configFile[i], "")], "\n")

\* export const stringify = (ast) => marshalConfigFile(ast)
stringify(ast) == marshalConfigFile(ast)

\* ------------------------------------------------------------------------
\* zod.ts. A schema returns { success, data }; z.object keeps the keys it
\* declares and drops the others, a union returns what its first matching
\* member returns. A tree holds no undefined, so a key that is missing and
\* a key that is null both read as Null.
\* ------------------------------------------------------------------------

VOk(d) == [success |-> TRUE, data |-> d]
VFail == [success |-> FALSE, data |-> Null]

\* z.object({ ... }) from the results of its members, given as <<key, result>>;
\* a schema with a literal type tag looks at its members only under that tag
ObjectOf(v, fs) ==
    IF IsObject(v) /\ \A i \in DOMAIN fs : fs[i][2].success
    THEN VOk([n \in {fs[i][1] : i \in DOMAIN fs} |->
                 LET i == CHOOSE j \in DOMAIN fs : fs[j][1] = n IN fs[i][2].data])
    ELSE VFail

\* the schemas refer to each other by name
RECURSIVE Schema(_, _)

\* z.union([...]): what the first member that accepts v returns
RECURSIVE Union(_, _)
Union(members, v) ==
    IF members = <<>> THEN VFail
    ELSE LET r == Schema(Head(members), v)
         IN IF r.success THEN r ELSE Union(Tail(members), v)

\* z.array(S)
ArrayOf(name, v) ==
    IF ~IsArray(v) THEN VFail
    ELSE LET rs == [i \in 1..Len(v) |-> Schema(name, v[i])] IN
         IF \A i \in 1..Len(v) : rs[i].success
         THEN VOk([i \in 1..Len(v) |-> rs[i].data]) ELSE VFail

\* S.nullable()
Nullable(name, v) == IF v = Null THEN VOk(Null) ELSE Schema(name, v)

\* z.literal(lit) or a union of literals, on the key f of v
LiteralIn(v, f, lits) ==
    IF IsString(Get(v, f)) /\ Get(v, f) \in lits THEN VOk(Get(v, f)) ELSE VFail

zString(v) == IF IsString(v) THEN VOk(v) ELSE VFail
zBoolean(v) == IF IsBoolean(v) THEN VOk(v) ELSE VFail
zNumber(v) == IF IsNumber(v) THEN VOk(v) ELSE VFail
zNull(v) == IF v = Null THEN VOk(Null) ELSE VFail

\* { start: z.boolean(), end: z.boolean() }
stripPairSchema(v) ==
    ObjectOf(v, << <<"start", zBoolean(Get(v, "start"))>>, <<"end", zBoolean(Get(v, "end"))>> >>)

parenthesizedExpressionSchema(v) ==
    IF Get(v, "type") # "ParenthesizedExpression" THEN VFail
    ELSE ObjectOf(v, << <<"type", VOk("ParenthesizedExpression")>>,
                   <<"expression", Schema("expressionSchema", Get(v, "expression"))>> >>)

identifierSchema(v) ==
    IF Get(v, "type") # "Identifier" THEN VFail
    ELSE ObjectOf(v, << <<"type", VOk("Identifier")>>,
                   <<"value", zString(Get(v, "value"))>> >>)

stringLiteralSchema(v) ==
    IF Get(v, "type") # "StringLiteral" THEN VFail
    ELSE ObjectOf(v, << <<"type", VOk("StringLiteral")>>,
                   <<"value", zString(Get(v, "value"))>> >>)

labelSchema(v) == Union(<<"identifierSchema", "stringLiteralSchema">>, v)

attributeSchema(v) ==
    IF Get(v, "type") # "Attribute" THEN VFail
    ELSE ObjectOf(v, << <<"type", VOk("Attribute")>>,
                   <<"name", Schema("identifierSchema", Get(v, "name"))>>,
                   <<"value", Schema("expressionSchema", Get(v, "value"))>> >>)

blockSchema(v) ==
    IF Get(v, "type") # "Block" THEN VFail
    ELSE ObjectOf(v, << <<"type", VOk("Block")>>,
                   <<"blockType", Schema("identifierSchema", Get(v, "blockType"))>>,
                   <<"labels", ArrayOf("labelSchema", Get(v, "labels"))>>,
                   <<"bodies", ArrayOf("bodySchema", Get(v, "bodies"))>> >>)

oneLineBlockSchema(v) ==
    IF Get(v, "type") # "OneLineBlock" THEN VFail
    ELSE ObjectOf(v, << <<"type", VOk("OneLineBlock")>>,
                   <<"blockType", Schema("identifierSchema", Get(v, "blockType"))>>,
                   <<"labels", ArrayOf("labelSchema", Get(v, "labels"))>>,
                   <<"attribute", Nullable("attributeSchema", Get(v, "attribute"))>> >>)

bodySchema(v) == Union(<<"attributeSchema", "blockSchema", "oneLineBlockSchema">>, v)

numberLiteralSchema(v) ==
    IF Get(v, "type") # "NumberLiteral" THEN VFail
    ELSE ObjectOf(v, << <<"type", VOk("NumberLiteral")>>,
                   <<"value", zNumber(Get(v, "value"))>> >>)

booleanLiteralSchema(v) ==
    IF Get(v, "type") # "BooleanLiteral" THEN VFail
    ELSE ObjectOf(v, << <<"type", VOk("BooleanLiteral")>>,
                   <<"value", zBoolean(Get(v, "value"))>> >>)

nullLiteralSchema(v) ==
    IF Get(v, "type") # "NullLiteral" THEN VFail
    ELSE ObjectOf(v, << <<"type", VOk("NullLiteral")>>,
                   <<"value", zNull(Get(v, "value"))>> >>)

literalValueSchema(v) ==
    Union(<<"numberLiteralSchema",
            "booleanLiteralSchema",
            "nullLiteralSchema">>, v)

tupleValueSchema(v) ==
    IF Get(v, "type") # "TupleValue" THEN VFail
    ELSE ObjectOf(v, << <<"type", VOk("TupleValue")>>,
                   <<"elements", ArrayOf("expressionSchema", Get(v, "elements"))>> >>)

objectValueElementSchema(v) ==
    ObjectOf(v, << <<"key", Schema("identifierSchema", Get(v, "key"))>>,
                   <<"value", Schema("expressionSchema", Get(v, "value"))>> >>)

objectValueSchema(v) ==
    IF Get(v, "type") # "ObjectValue" THEN VFail
    ELSE ObjectOf(v, << <<"type", VOk("ObjectValue")>>,
                   <<"elements", ArrayOf("objectValueElementSchema", Get(v, "elements"))>> >>)

collectionValueSchema(v) == Union(<<"tupleValueSchema", "objectValueSchema">>, v)

templateLiteralSchema(v) ==
    IF Get(v, "type") # "TemplateLiteral" THEN VFail
    ELSE ObjectOf(v, << <<"type", VOk("TemplateLiteral")>>,
                        <<"value", zString(Get(v, "value"))>> >>)

\* { left: z.boolean(), right: z.boolean() }
interpolationStripSchema(v) ==
    ObjectOf(v, << <<"left", zBoolean(Get(v, "left"))>>, <<"right", zBoolean(Get(v, "right"))>> >>)

templateInterpolationSchema(v) ==
    IF Get(v, "type") # "TemplateInterpolation" THEN VFail
    ELSE ObjectOf(v, << <<"type", VOk("TemplateInterpolation")>>,
                        <<"expression", Schema("expressionSchema", Get(v, "expression"))>>,
                        <<"strip", Schema("interpolationStripSchema", Get(v, "strip"))>> >>)

\* the strip object of templateIfSchema
templateIfStripSchema(v) ==
    ObjectOf(v, << <<"if", Schema("stripPairSchema", Get(v, "if"))>>,
                   <<"else", Schema("stripPairSchema", Get(v, "else"))>>,
                   <<"endif", Schema("stripPairSchema", Get(v, "endif"))>> >>)

templateIfSchema(v) ==
    IF Get(v, "type") # "TemplateIf" THEN VFail
    ELSE ObjectOf(v, << <<"type", VOk("TemplateIf")>>,
                        <<"condition", Schema("expressionSchema", Get(v, "condition"))>>,
                        <<"then", Schema("templateSchema", Get(v, "then"))>>,
                        <<"else", Nullable("templateSchema", Get(v, "else"))>>,
                        <<"strip", Schema("templateIfStripSchema", Get(v, "strip"))>> >>)

\* the strip object of templateForSchema
templateForStripSchema(v) ==
    ObjectOf(v, << <<"for", Schema("stripPairSchema", Get(v, "for"))>>,
                   <<"endfor", Schema("stripPairSchema", Get(v, "endfor"))>> >>)

templateForSchema(v) ==
    IF Get(v, "type") # "TemplateFor" THEN VFail
    ELSE ObjectOf(v, << <<"type", VOk("TemplateFor")>>,
                        <<"key", Schema("identifierSchema", Get(v, "key"))>>,
                        <<"value", Nullable("identifierSchema", Get(v, "value"))>>,
                        <<"collection", Schema("expressionSchema", Get(v, "collection"))>>,
                        <<"template", Schema("templateSchema", Get(v, "template"))>>,
                        <<"body", Schema("templateSchema", Get(v, "body"))>>,
                        <<"strip", Schema("templateForStripSchema", Get(v, "strip"))>> >>)

templateDirectiveSchema(v) == Union(<<"templateIfSchema", "templateForSchema">>, v)

templateSchema(v) ==
    Union(<<"templateLiteralSchema",
            "templateInterpolationSchema",
            "templateDirectiveSchema">>, v)

quotedTemplateContentSchema(v) == Schema("templateSchema", v)

quotedTemplateExpressionSchema(v) ==
    IF Get(v, "type") # "QuotedTemplateExpression" THEN VFail
    ELSE ObjectOf(v, << <<"type", VOk("QuotedTemplateExpression")>>,
                        <<"parts", ArrayOf("quotedTemplateContentSchema", Get(v, "parts"))>> >>)

heredocTemplateExpressionSchema(v) ==
    IF Get(v, "type") # "HeredocTemplateExpression" THEN VFail
    ELSE ObjectOf(v, << <<"type", VOk("HeredocTemplateExpression")>>,
                        <<"marker", Schema("identifierSchema", Get(v, "marker"))>>,
                        <<"stripIndent", zBoolean(Get(v, "stripIndent"))>>,
                        <<"template", ArrayOf("templateSchema", Get(v, "template"))>> >>)

templateExpressionSchema(v) ==
    Union(<<"quotedTemplateExpressionSchema",
            "heredocTemplateExpressionSchema">>, v)

functionCallExpressionSchema(v) ==
    IF Get(v, "type") # "FunctionCallExpression" THEN VFail
    ELSE ObjectOf(v, << <<"type", VOk("FunctionCallExpression")>>,
                        <<"name", Schema("identifierSchema", Get(v, "name"))>>,
                        <<"args", ArrayOf("expressionSchema", Get(v, "args"))>> >>)

variableExpressionSchema(v) ==
    IF Get(v, "type") # "VariableExpression" THEN VFail
    ELSE ObjectOf(v, << <<"type", VOk("VariableExpression")>>,
                        <<"name", Schema("identifierSchema", Get(v, "name"))>> >>)

forIntroSchema(v) ==
    ObjectOf(v, << <<"iterator", Schema("identifierSchema", Get(v, "iterator"))>>,
                   <<"value", Nullable("identifierSchema", Get(v, "value"))>>,
                   <<"collection", Schema("expressionSchema", Get(v, "collection"))>> >>)

forTupleExpressionSchema(v) ==
    IF Get(v, "type") # "ForExpression" THEN VFail
    ELSE ObjectOf(v, << <<"type", VOk("ForExpression")>>,
                        <<"kind", LiteralIn(v, "kind", {"tuple"})>>,
                        <<"intro", Schema("forIntroSchema", Get(v, "intro"))>>,
                        <<"expression", Schema("expressionSchema", Get(v, "expression"))>>,
                        <<"condition", Nullable("expressionSchema", Get(v, "condition"))>> >>)

forObjectExpressionSchema(v) ==
    IF Get(v, "type") # "ForExpression" THEN VFail
    ELSE ObjectOf(v, << <<"type", VOk("ForExpression")>>,
                        <<"kind", LiteralIn(v, "kind", {"object"})>>,
                        <<"intro", Schema("forIntroSchema", Get(v, "intro"))>>,
                        <<"key", Schema("expressionSchema", Get(v, "key"))>>,
                        <<"value", Schema("expressionSchema", Get(v, "value"))>>,
                        <<"grouping", zBoolean(Get(v, "grouping"))>>,
                        <<"condition", Nullable("expressionSchema", Get(v, "condition"))>> >>)

forExpressionSchema(v) == Union(<<"forTupleExpressionSchema", "forObjectExpressionSchema">>, v)

indexOperatorSchema(v) ==
    IF Get(v, "type") # "IndexOperator" THEN VFail
    ELSE ObjectOf(v, << <<"type", VOk("IndexOperator")>>,
                        <<"key", Schema("expressionSchema", Get(v, "key"))>>,
                        <<"target", Schema("expressionSchema", Get(v, "target"))>> >>)

legacyIndexOperatorSchema(v) ==
    IF Get(v, "type") # "LegacyIndexOperator" THEN VFail
    ELSE ObjectOf(v, << <<"type", VOk("LegacyIndexOperator")>>,
                        <<"key", Schema("numberLiteralSchema", Get(v, "key"))>>,
                        <<"target", Schema("expressionSchema", Get(v, "target"))>> >>)

getAttributeOperatorSchema(v) ==
    IF Get(v, "type") # "GetAttributeOperator" THEN VFail
    ELSE ObjectOf(v, << <<"type", VOk("GetAttributeOperator")>>,
                        <<"key", Schema("identifierSchema", Get(v, "key"))>>,
                        <<"target", Schema("expressionSchema", Get(v, "target"))>> >>)

splatGetAttributeOperatorSchema(v) ==
    IF Get(v, "type") # "GetAttributeOperator" THEN VFail
    ELSE ObjectOf(v, << <<"type", VOk("GetAttributeOperator")>>,
                        <<"key", Schema("identifierSchema", Get(v, "key"))>> >>)

attrSplatOperatorSchema(v) ==
    IF Get(v, "type") # "SplatOperator" THEN VFail
    ELSE ObjectOf(v, << <<"type", VOk("SplatOperator")>>,
                        <<"kind", LiteralIn(v, "kind", {"Attribute"})>>,
                        <<"attributes", ArrayOf("splatGetAttributeOperatorSchema", Get(v, "attributes"))>>,
                        <<"target", Schema("expressionSchema", Get(v, "target"))>> >>)

\* z.union([splatGetAttributeOperatorSchema, indexOperatorSchema])
fullSplatOperationSchema(v) ==
    Union(<<"splatGetAttributeOperatorSchema",
            "indexOperatorSchema">>, v)

fullSplatOperatorSchema(v) ==
    IF Get(v, "type") # "SplatOperator" THEN VFail
    ELSE ObjectOf(v, << <<"type", VOk("SplatOperator")>>,
                        <<"kind", LiteralIn(v, "kind", {"Full"})>>,
                        <<"operations", ArrayOf("fullSplatOperationSchema", Get(v, "operations"))>>,
                        <<"target", Schema("expressionSchema", Get(v, "target"))>> >>)

splatOperatorSchema(v) == Union(<<"attrSplatOperatorSchema", "fullSplatOperatorSchema">>, v)

conditionalOperatorSchema(v) ==
    IF Get(v, "type") # "ConditionalOperator" THEN VFail
    ELSE ObjectOf(v, << <<"type", VOk("ConditionalOperator")>>,
                        <<"predicate", Schema("expressionSchema", Get(v, "predicate"))>>,
                        <<"trueExpr", Schema("expressionSchema", Get(v, "trueExpr"))>>,
                        <<"falseExpr", Schema("expressionSchema", Get(v, "falseExpr"))>> >>)

unaryOperatorSchema(v) ==
    IF Get(v, "type") # "UnaryOperator" THEN VFail
    ELSE ObjectOf(v, << <<"type", VOk("UnaryOperator")>>,
                        <<"operator", LiteralIn(v, "operator", {"!", "-"})>>,
                        <<"term", Schema("expressionSchema", Get(v, "term"))>> >>)

\* the common shape of the five binary operator schemas
binaryOperatorWith(v, operators) ==
    IF Get(v, "type") # "BinaryOperator" THEN VFail
    ELSE ObjectOf(v, << <<"type", VOk("BinaryOperator")>>,
                        <<"operator", LiteralIn(v, "operator", operators)>>,
                        <<"left", Schema("expressionSchema", Get(v, "left"))>>,
                        <<"right", Schema("expressionSchema", Get(v, "right"))>> >>)

multiplicativeOperatorSchema(v) == binaryOperatorWith(v, {"*", "/", "%"})
additiveOperatorSchema(v) == binaryOperatorWith(v, {"+", "-"})
comparisonOperatorSchema(v) == binaryOperatorWith(v, {"!=", ">", ">=", "<", "<="})
equalityOperatorSchema(v) == binaryOperatorWith(v, {"==", "!="})
logicalOperatorSchema(v) == binaryOperatorWith(v, {"&&", "||"})

binaryOperatorSchema(v) ==
    Union(<<"multiplicativeOperatorSchema",
            "additiveOperatorSchema",
            "comparisonOperatorSchema",
            "equalityOperatorSchema",
            "logicalOperatorSchema">>, v)

operatorsSchema(v) ==
    Union(<<"conditionalOperatorSchema",
            "unaryOperatorSchema",
            "binaryOperatorSchema">>, v)

expressionSchema(v) ==
    Union(<<"literalValueSchema",
            "collectionValueSchema",
            "operatorsSchema",
            "templateExpressionSchema",
            "functionCallExpressionSchema",
            "variableExpressionSchema",
            "forExpressionSchema",
            "indexOperatorSchema",
            "legacyIndexOperatorSchema",
            "getAttributeOperatorSchema",
            "splatOperatorSchema",
            "parenthesizedExpressionSchema">>, v)

\* the schemas of zod.ts by name
Schema(name, v) ==
    CASE name = "stripPairSchema" -> stripPairSchema(v)
      [] name = "parenthesizedExpressionSchema" -> parenthesizedExpressionSchema(v)
      [] name = "identifierSchema" -> identifierSchema(v)
      [] name = "stringLiteralSchema" -> stringLiteralSchema(v)
      [] name = "labelSchema" -> labelSchema(v)
      [] name = "attributeSchema" -> attributeSchema(v)
      [] name = "blockSchema" -> blockSchema(v)
      [] name = "oneLineBlockSchema" -> oneLineBlockSchema(v)
      [] name = "bodySchema" -> bodySchema(v)
      [] name = "numberLiteralSchema" -> numberLiteralSchema(v)
      [] name = "booleanLiteralSchema" -> booleanLiteralSchema(v)
      [] name = "nullLiteralSchema" -> nullLiteralSchema(v)
      [] name = "literalValueSchema" -> literalValueSchema(v)
      [] name = "tupleValueSchema" -> tupleValueSchema(v)
      [] name = "objectValueElementSchema" -> objectValueElementSchema(v)
      [] name = "objectValueSchema" -> objectValueSchema(v)
      [] name = "collectionValueSchema" -> collectionValueSchema(v)
      [] name = "templateLiteralSchema" -> templateLiteralSchema(v)
      [] name = "interpolationStripSchema" -> interpolationStripSchema(v)
      [] name = "templateInterpolationSchema" -> templateInterpolationSchema(v)
      [] name = "templateIfStripSchema" -> templateIfStripSchema(v)
      [] name = "templateIfSchema" -> templateIfSchema(v)
      [] name = "templateForStripSchema" -> templateForStripSchema(v)
      [] name = "templateForSchema" -> templateForSchema(v)
      [] name = "templateDirectiveSchema" -> templateDirectiveSchema(v)
      [] name = "templateSchema" -> templateSchema(v)
      [] name = "quotedTemplateContentSchema" -> quotedTemplateContentSchema(v)
      [] name = "quotedTemplateExpressionSchema" -> quotedTemplateExpressionSchema(v)
      [] name = "heredocTemplateExpressionSchema" -> heredocTemplateExpressionSchema(v)
      [] name = "templateExpressionSchema" -> templateExpressionSchema(v)
      [] name = "functionCallExpressionSchema" -> functionCallExpressionSchema(v)
      [] name = "variableExpressionSchema" -> variableExpressionSchema(v)
      [] name = "forIntroSchema" -> forIntroSchema(v)
      [] name = "forTupleExpressionSchema" -> forTupleExpressionSchema(v)
      [] name = "forObjectExpressionSchema" -> forObjectExpressionSchema(v)
      [] name = "forExpressionSchema" -> forExpressionSchema(v)
      [] name = "indexOperatorSchema" -> indexOperatorSchema(v)
      [] name = "legacyIndexOperatorSchema" -> legacyIndexOperatorSchema(v)
      [] name = "getAttributeOperatorSchema" -> getAttributeOperatorSchema(v)
      [] name = "splatGetAttributeOperatorSchema" -> splatGetAttributeOperatorSchema(v)
      [] name = "attrSplatOperatorSchema" -> attrSplatOperatorSchema(v)
      [] name = "fullSplatOperationSchema" -> fullSplatOperationSchema(v)
      [] name = "fullSplatOperatorSchema" -> fullSplatOperatorSchema(v)
      [] name = "splatOperatorSchema" -> splatOperatorSchema(v)
      [] name = "conditionalOperatorSchema" -> conditionalOperatorSchema(v)
      [] name = "unaryOperatorSchema" -> unaryOperatorSchema(v)
      [] name = "multiplicativeOperatorSchema" -> multiplicativeOperatorSchema(v)
      [] name = "additiveOperatorSchema" -> additiveOperatorSchema(v)
      [] name = "comparisonOperatorSchema" -> comparisonOperatorSchema(v)
      [] name = "equalityOperatorSchema" -> equalityOperatorSchema(v)
      [] name = "logicalOperatorSchema" -> logicalOperatorSchema(v)
      [] name = "binaryOperatorSchema" -> binaryOperatorSchema(v)
      [] name = "operatorsSchema" -> operatorsSchema(v)
      [] name = "expressionSchema" -> expressionSchema(v)

\* export const schema = z.array(bodySchema); schema.safeParse(ast)
schema(ast) == ArrayOf("bodySchema", ast)

\* deep structural equality of two values: the same kind, the same keys and
\* deeply equal members
RECURSIVE DeepEqual(_, _)
DeepEqual(a, b) ==
    IF IsArray(a) /\ IsArray(b)
    THEN Len(a) = Len(b) /\ \A i \in 1..Len(a) : DeepEqual(a[i], b[i])
    ELSE IF IsObject(a) /\ IsObject(b)
    THEN DOMAIN a = DOMAIN b /\ \A k \in DOMAIN a : DeepEqual(a[k], b[k])
    ELSE IF IsString(a) /\ IsString(b) THEN a = b
    ELSE IF IsBoolean(a) /\ IsBoolean(b) THEN a = b
    ELSE IF IsArray(a) \/ IsArray(b) \/ IsObject(a) \/ IsObject(b) \/ IsString(a) \/ IsString(b)
            \/ IsBoolean(a) \/ IsBoolean(b)
    THEN FALSE
    ELSE a = b

\* ------------------------------------------------------------------------
\* Input texts and trees of the bounded model
\* ------------------------------------------------------------------------

\* the number of parse calls in a run
MaxCalls == 2

\* nodes of types.ts
Id(v) == [type |-> "Identifier", value |-> v]
Var(n) == [type |-> "VariableExpression", name |-> Id(n)]
Num(n) == [type |-> "NumberLiteral", value |-> [m |-> n, e |-> 0, inf |-> FALSE]]
Bin(o, l, r) == [type |-> "BinaryOperator", operator |-> o, left |-> l, right |-> r]
Attr(n, v) == [type |-> "Attribute", name |-> Id(n), value |-> v]
Lit(v) == [type |-> "TemplateLiteral", value |-> v]
Heredoc(parts) ==
    [type |-> "HeredocTemplateExpression", marker |-> Id("EOF"), stripIndent |-> FALSE,
     template |-> parts]
NoStrip == [start |-> FALSE, end |-> FALSE]

BinaryOperators == {"*", "/", "%", "+", "-", ">", ">=", "<", "<=", "==", "!=", "&&", "||"}

\* x = a o1 b o2 c
ExprText(o1, o2) == "x = a " \o o1 \o " b " \o o2 \o " c"

PrecedenceInputs ==
    {ExprText(o[1], o[2]) :
        o \in {q \in BinaryOperators \X BinaryOperators : precedence(q[1]) # precedence(q[2])}}

ExpressionInputs ==
    {"x = 1", "x = 1.5", "x = true", "x = null", "x = a", "x = [1, 2]", "x = []",
     "x = { a = 1 }", "x = {}", "x = f(a, 1)", "x = a.b", "x = a[0]", "x = a.0",
     "x = a.*.b", "x = a[*].b", "x = a[*][0]", "x = !a", "x = -a", "x = a ? b : c",
     "x = [for v in l: v]", "x = [for k, v in l: v if k]", "x = {for k in m: k => k}",
     "x = (1)", "x = (1 + 2) * 3", "x = a - b - c", "x = a + b"}

TemplateInputs ==
    {"x = \"hi\"", "x = \"a${b}c\"", "x = \"${~ a ~}\"", "x = \"$$\"", "x = \"%%\"",
     "x = \"a\\nb\"", "x = \"a\\\"b\"", "x = \"\\u0041\"", "x = \"\\U0110000\"",
     "x = \"%{if a}b%{endif}\"", "x = \"%{if a}b%{else}c%{endif}\"",
     "x = \"%{for v in l}${v}%{endfor}\""}

HeredocInputs ==
    {"x = <<EOF\nhi\nEOF", "x = <<-EOF\n  hi\n  EOF", "x = <<EOF\n${a}\nEOF",
     "x = <<EOF\n%{if a}b%{endif}\nEOF", "x = <<EOF\n%{if a}b%{else}c%{endif}\nEOF",
     "x = <<EOF\n%{for v in l}${v}%{endfor}\nEOF", "x = <<EOF\nhi\nEOF\ny = 1"}

BlockInputs ==
    {"b {}", "b \"l\" {}", "b l {}", "b { a = 1 }", "b \"l\" { a = 1 }", "b {\n  a = 1\n}",
     "b {\n  c {\n    a = 1\n  }\n}", "a = 1\nb = 2"}

\* texts made only of spaces, tabs, newlines, inline comments and line
\* comments, the last line comment with or without its newline
BlankPieces == {"", " ", "\t", "\n", "\r\n", "/* c */", "# c\n", "// c\n"}
BlankInputs == {a \o b : a \in BlankPieces, b \in BlankPieces \cup {"# c", "// c"}}

\* the lines of a text
RECURSIVE Lines(_, _)
Lines(str, line) ==
    IF Len(str) = 0 THEN <<line>>
    ELSE IF SubSeq(str, 1, 1) = "\n" THEN <<line>> \o Lines(SubSeq(str, 2, Len(str)), "")
    ELSE Lines(SubSeq(str, 2, Len(str)), line \o SubSeq(str, 1, 1))

HasLine(str, line) == \E i \in DOMAIN Lines(str, "") : Lines(str, "")[i] = line

UnterminatedStrings == {"x = \"abc", "x = \"abc\ny = 1", "b \"l {}"}
UnterminatedHeredocs ==
    {s \in {"x = <<EOF\nhi", "x = <<EOF\nhi\n", "x = <<EOF\nhi EOF", "x = <<EOF\nhiEOF",
            "x = <<EOF\nhi\nEOF"} : ~HasLine(s, "EOF")}
UnbalancedBraces == {"b {", "b { a = 1", "b {\n  a = 1\n", "x = [1, 2", "x = { a = 1", "x = f(a", "b {}}"}
InvalidEscapes == {"x = \"\\q\"", "b \"\\q\" {}", "x = \"\\u12\""}
MalformedInputs == UnterminatedStrings \cup UnterminatedHeredocs \cup UnbalancedBraces \cup InvalidEscapes

\* texts that leave a marker in the register, and texts whose parse reads it
RegisterInputs ==
    {"x = <<M\nhi\nM", "x = <<N\nhi", "x = \"%{if a}M%{endif}\"", "x = \"%{if a}N%{endif}\""}

\* block headers: the type b and its labels, a label being a quoted string
\* or an identifier
LabelTexts == {<<>>, <<"\"a\"">>, <<"l">>, <<"\"a\"", "l">>, <<"l", "\"a\"">>, <<"\"a\"", "\"w\"">>}

RECURSIVE Header(_)
Header(ls) == IF ls = <<>> THEN "b" ELSE Header(SubSeq(ls, 1, Len(ls) - 1)) \o " " \o ls[Len(ls)]

\* the node of a label
LabelNode(l) ==
    IF SubSeq(l, 1, 1) = "\"" THEN [type |-> "StringLiteral", value |-> SubSeq(l, 2, Len(l) - 1)]
    ELSE Id(l)

\* braces that enclose no body element, on one line or across lines
EmptyBraces == {"{}", "{ }", "{\n}", "{\n\n}", "{}\n"}

EmptyBlockText(ls, br) == Header(ls) \o " " \o br
OneLineText(ls) == Header(ls) \o " { a = 1 }"

BlockFormInputs ==
    {EmptyBlockText(ls, br) : ls \in LabelTexts, br \in EmptyBraces} \cup {OneLineText(ls) : ls \in LabelTexts}

\* x = (a o1 b) o2 c
ParenText(o1, o2) == "x = (a " \o o1 \o " b) " \o o2 \o " c"

\* one operator of each level in both places, and every operator in each
\* place
LevelOperators == {"*", "+", "<", "==", "&&", "||"}
ParenPairs ==
    (LevelOperators \X LevelOperators)
        \cup {<<o, "+">> : o \in BinaryOperators} \cup {<<"*", o>> : o \in BinaryOperators}
ParenInputs == {ParenText(o[1], o[2]) : o \in ParenPairs}

\* x = <<M or <<-M, a newline, the body, a newline, M
HeredocText(form, m, body) == "x = " \o form \o m \o "\n" \o body \o "\n" \o m

\* bodies without interpolation, directive or marker: one line, indented,
\* two lines, ending in an empty line, with a hash, with a dollar
PlainBodies == {"hi", " h", "a\nb", "h\n", "h #c", "a$b"}
PlainHeredocs ==
    ({"<<", "<<-"} \X {"EOF"} \X PlainBodies) \cup ({"<<", "<<-"} \X {"M"} \X {"hi"})
PlainHeredocInputs == {HeredocText(d[1], d[2], d[3]) : d \in PlainHeredocs}

\* x = i.f, e or E, the sign and the exponent digits, for d = <<i, f, mark,
\* sign, digits>>; f = "" leaves the fraction out
NumText(d) ==
    "x = " \o d[1] \o (IF d[2] = "" THEN "" ELSE "." \o d[2]) \o d[3] \o d[4] \o d[5]

ExponentNumbers ==
    ({"1", "2", "15"} \X {"", "5", "05"} \X {"e"} \X {"-"} \X {"3"})
    \cup ({"1"} \X {"5"} \X {"e", "E"} \X {"", "+", "-"} \X {"3"})
    \cup ({"2"} \X {""} \X {"e"} \X {"", "-"} \X {"3", "0", "4"})
    \cup ({"2"} \X {""} \X {"e"} \X {"", "+"} \X {"309"})
ExponentInputs == {NumText(d) : d \in ExponentNumbers}

RECURSIVE Pow10(_)
Pow10(n) == IF n = 0 THEN 1 ELSE 10 * Pow10(n - 1)

\* v is the number digits x 10^exponent
Denotes(v, digits, exponent) ==
    /\ ~v.inf
    /\ LET lo == IF v.e < exponent THEN v.e ELSE exponent
       IN v.m * Pow10(v.e - lo) = digits * Pow10(exponent - lo)

\* for expressions over the collection c whose intro names k, or k and v
ForTwoInputs == {"x = [for k, v in c: v]", "x = {for k, v in c: k => v}"}
ForOneInputs == {"x = [for k in c: k]", "x = {for k in c: k => k}"}
ForIntroInputs == ForTwoInputs \cup ForOneInputs

\* an attribute or a block, a line comment, and what terminates the
\* element: the end of the input, a newline, or a newline and more input
CommentBases == {"x = 1", "b {\n}"}
CommentEnds == {"", "\n", "\ny = 2"}
LineComments == {"// c", "# c", "#"}
CommentCases == CommentBases \X LineComments \X CommentEnds
CommentedText(d) == d[1] \o " " \o d[2] \o d[3]
CommentInputs == {CommentedText(d) : d \in CommentCases}

\* bodies of <<M that hold M in the middle of a line, as the tail of a
\* longer word and as the head of a longer word
MarkerBodies == {"a M b", "aM", "Ma"}
MarkerBodyInputs == {HeredocText("<<", "M", b) : b \in MarkerBodies}

\* a heredoc <<o whose body is an interpolation that holds the heredoc <<i,
\* and whose last line is e
NestedText(o, i, e) == "x = <<" \o o \o "\n${<<" \o i \o "\nh\n" \o i \o "}\n" \o e
NestedMarkers == {<<"A", "A", "A">>, <<"A", "B", "A">>, <<"A", "B", "B">>}
NestedInputs == {NestedText(d[1], d[2], d[3]) : d \in NestedMarkers}

\* attributes whose value is a quoted template with the literal segment M:
\* next to an interpolation, and as the body of a directive
QuotedTexts == {"x = \"M${a}\"", "x = \"%{if a}M%{endif}\""}

\* the heredoc <<m in front of a text
AfterHeredoc(m, q) == "y = <<" \o m \o "\nh\n" \o m \o "\n" \o q
AfterHeredocCases == {"M", "N"} \X QuotedTexts
AfterHeredocInputs == {AfterHeredoc(d[1], d[2]) : d \in AfterHeredocCases}

\* tuples and objects whose first token is an identifier: identifiers that
\* begin with the letters f, o, r, and others
FirstWords == {"format", "force", "for_each", "fo", "a"}
TupleText(w) == "x = [" \o w \o "]"
ObjectText(w) == "x = {" \o w \o " = 1}"
FirstWordInputs == {TupleText(w) : w \in FirstWords} \cup {ObjectText(w) : w \in FirstWords}

\* for expressions with whitespace and a newline before the keyword
ForKeywordInputs == {"x = [ for k in c: k]", "x = {\nfor k in c: k => k}"}

\* x = u a op b and x = b op u a for a unary operator u
UnaryOperators == {"-", "!"}
UnaryLeftText(u, op) == "x = " \o u \o "a " \o op \o " b"
UnaryRightText(u, op) == "x = b " \o op \o " " \o u \o "a"
UnaryCases == UnaryOperators \X {"*", "+", "==", "||"}
UnaryInputs ==
    {UnaryLeftText(d[1], d[2]) : d \in UnaryCases} \cup {UnaryRightText(d[1], d[2]) : d \in UnaryCases}
Unary(u, t) == [type |-> "UnaryOperator", operator |-> u, term |-> t]

\* x = a op b ? c : d
CondText(op) == "x = a " \o op \o " b ? c : d"
CondInputs == {CondText(op) : op \in LevelOperators}
Cond(p, t, f) == [type |-> "ConditionalOperator", predicate |-> p, trueExpr |-> t, falseExpr |-> f]

\* pairs of operators of one precedence level, a chain of two conditionals,
\* and a unary operation as the right operand of the first operator
SameLevelPairs ==
    {<<"-", "-">>, <<"-", "+">>, <<"*", "/">>, <<"<", ">=">>, <<"==", "!=">>, <<"&&", "&&">>,
     <<"||", "||">>}
ConditionalChain == "x = a ? b : c ? d : e"
UnaryMiddle == "x = a * -b + c"
ChainInputs == {ExprText(o[1], o[2]) : o \in SameLevelPairs} \cup {ConditionalChain, UnaryMiddle}

IsBinary(v) == IsObject(v) /\ "type" \in DOMAIN v /\ v.type = "BinaryOperator"

\* no BinaryOperator anywhere in v has a BinaryOperator as its left operand
RECURSIVE NoBinaryLeft(_)
NoBinaryLeft(v) ==
    IF IsArray(v) THEN \A i \in 1..Len(v) : NoBinaryLeft(v[i])
    ELSE IF IsObject(v)
    THEN (IsBinary(v) => ~IsBinary(v.left)) /\ \A k \in DOMAIN v : NoBinaryLeft(v[k])
    ELSE TRUE

\* the last operand of a chain of binary operators is a unary operation
RECURSIVE EndsUnary(_)
EndsUnary(v) ==
    IF IsBinary(v) THEN EndsUnary(v.right)
    ELSE IsObject(v) /\ "type" \in DOMAIN v /\ v.type = "UnaryOperator"

\* a BinaryOperator anywhere in v has a BinaryOperator as its left operand
\* only if that operand ends in a unary operation
RECURSIVE BinaryLeftEndsUnary(_)
BinaryLeftEndsUnary(v) ==
    IF IsArray(v) THEN \A i \in 1..Len(v) : BinaryLeftEndsUnary(v[i])
    ELSE IF IsObject(v)
    THEN ((IsBinary(v) /\ IsBinary(v.left)) => EndsUnary(v.left))
         /\ \A k \in DOMAIN v : BinaryLeftEndsUnary(v[k])
    ELSE TRUE

\* expressions built only from binary operators over literal and variable
\* terms, without parentheses
BinaryOnlyInputs ==
    PrecedenceInputs \cup {ExprText(o[1], o[2]) : o \in SameLevelPairs}
    \cup {"x = 1 - 2 - 3", "x = 2 * 3 + 4", "x = a + b"}

\* attributes whose value is a term with index and splat steps, written as
\* stringify writes them
SplatTexts ==
    {"x = a[*].b[0]", "x = a[*].0", "x = a.*.b.c", "x = a[0].1", "x = a[*][0]", "x = a[*].b",
     "x = a.*.b"}

TypeIn(v, types) == IsObject(v) /\ "type" \in DOMAIN v /\ v.type \in types

\* a step of a splat list is of one of the kinds, and no target is set on a
\* GetAttribute step
StepOk(step, kinds) ==
    /\ TypeIn(step, kinds)
    /\ step.type = "GetAttributeOperator" => "target" \notin DOMAIN step

SplatShape(v) ==
    /\ v.kind = "Full" =>
           \A i \in 1..Len(v.operations) :
               StepOk(v.operations[i], {"GetAttributeOperator", "IndexOperator"})
    /\ v.kind = "Attribute" =>
           \A i \in 1..Len(v.attributes) : StepOk(v.attributes[i], {"GetAttributeOperator"})

\* every splat anywhere in v has the documented lists
RECURSIVE SplatShapes(_)
SplatShapes(v) ==
    IF IsArray(v) THEN \A i \in 1..Len(v) : SplatShapes(v[i])
    ELSE IF IsObject(v)
    THEN (TypeIn(v, {"SplatOperator"}) => SplatShape(v)) /\ \A k \in DOMAIN v : SplatShapes(v[k])
    ELSE TRUE

\* the postfix operators of a term carry their targets, down to the head
RECURSIVE PostfixTargets(_)
PostfixTargets(v) ==
    TypeIn(v, {"IndexOperator", "LegacyIndexOperator", "GetAttributeOperator", "SplatOperator"}) =>
        ("target" \in DOMAIN v /\ PostfixTargets(v.target))

\* escape sequences as written in the source, with the text they name
Escapes ==
    {<<"\\n", "\n">>, <<"\\r", "\r">>, <<"\\t", "\t">>, <<"\\\"", "\"">>, <<"\\\\", "\\">>,
     <<"\\u0041", "A">>, <<"\\U00000041", "A">>}
TemplateEscapes == {<<"$$", "$">>, <<"%%", "%">>}
EscapedLabelText(e) == "b \"" \o e \o "\" {}"
EscapedTemplateText(e) == "x = \"" \o e \o "\""
EscapeInputs ==
    {EscapedLabelText(e[1]) : e \in Escapes}
    \cup {EscapedTemplateText(e[1]) : e \in Escapes \cup TemplateEscapes}

\* the tree b holds the literal of the tree a: the first label of its block,
\* or the first part of the quoted template of its attribute
SameLiteral(a, b) ==
    /\ Len(a) = 1 /\ Len(b) = 1
    /\ b[1].type = a[1].type
    /\ IF a[1].type = "Attribute"
       THEN /\ b[1].value.type = "QuotedTemplateExpression"
            /\ Len(b[1].value.parts) >= 1
            /\ b[1].value.parts[1].type = "TemplateLiteral"
            /\ b[1].value.parts[1].value = a[1].value.parts[1].value
       ELSE /\ Len(b[1].labels) >= 1
            /\ b[1].labels[1].type = "StringLiteral"
            /\ b[1].labels[1].value = a[1].labels[1].value

\* identifiers other than true, false and null: with a keyword at the
\* start, and with the other characters an identifier may hold
VariableNames == {"null_resource", "trueish", "falsey", "nul", "a", "_a", "a-b", "a1", "format"}
VariableText(n) == "x = " \o n
VariableInputs == {VariableText(n) : n \in VariableNames}

\* the texts of the claims about single constructs
ClaimInputs == BlockFormInputs \cup ParenInputs \cup PlainHeredocInputs \cup ExponentInputs \cup ForIntroInputs \cup CommentInputs \cup MarkerBodyInputs \cup NestedInputs \cup AfterHeredocInputs \cup FirstWordInputs \cup ForKeywordInputs \cup UnaryInputs \cup CondInputs \cup ChainInputs \cup BinaryOnlyInputs \cup SplatTexts \cup EscapeInputs \cup VariableInputs

Inputs ==
    PrecedenceInputs \cup ExpressionInputs \cup TemplateInputs \cup HeredocInputs \cup BlockInputs
        \cup BlankInputs \cup MalformedInputs \cup RegisterInputs \cup ClaimInputs

\* trees a caller builds by hand
TreeNumber == <<Attr("x", Num(1))>>
TreeParenthesized == <<Attr("x", [type |-> "ParenthesizedExpression", expression |-> Num(1)])>>
TreeEmptyOneLineBlock ==
    <<[type |-> "OneLineBlock", blockType |-> Id("b"), labels |-> <<>>, attribute |-> Null]>>
TreeBlock ==
    <<[type |-> "Block", blockType |-> Id("b"), labels |-> <<Id("l")>>, bodies |-> <<Attr("a", Num(1))>>]>>
TreeLeftNested == <<Attr("x", Bin("+", Bin("*", Var("a"), Var("b")), Var("c")))>>
TreeQuoted == <<Attr("x", [type |-> "QuotedTemplateExpression", parts |-> <<Lit("hi")>>])>>
TreeHeredocIf ==
    <<Attr("x", Heredoc(<<[type |-> "TemplateIf", condition |-> Var("a"), then |-> Lit("b"),
                           else |-> Null,
                           strip |-> [if |-> NoStrip, else |-> NoStrip, endif |-> NoStrip]]>>))>>
TreeHeredocFor ==
    <<Attr("x", Heredoc(<<[type |-> "TemplateFor", key |-> Id("v"), value |-> Null,
                           collection |-> Var("l"), template |-> Lit("b"), body |-> Lit("b"),
                           strip |-> [for |-> NoStrip, endfor |-> NoStrip]]>>))>>

\* trees with a BinaryOperator as the left or as the right child of a
\* BinaryOperator: d = <<operator, operator of the child, side>>
NestedPairs ==
    {<<"*", "+">>, <<"+", "*">>, <<"+", "+">>, <<"&&", "||">>, <<"&&", "&&">>, <<"||", "||">>,
     <<"||", "&&">>}
NestedCases == {<<o[1], o[2], side>> : o \in NestedPairs, side \in {"left", "right"}}
NestedNode(d) ==
    IF d[3] = "left" THEN Bin(d[1], Bin(d[2], Var("a"), Var("b")), Var("c"))
    ELSE Bin(d[1], Var("a"), Bin(d[2], Var("b"), Var("c")))
NestedTrees == {<<Attr("x", NestedNode(d))>> : d \in NestedCases}

\* the text of NestedNode(d) when a left child of a lower level and a right
\* child of the same or a lower level are wrapped
WrappedText(d) ==
    IF d[3] = "left"
    THEN (IF precedence(d[2]) < precedence(d[1]) THEN "(a " \o d[2] \o " b)" ELSE "a " \o d[2] \o " b")
         \o " " \o d[1] \o " c"
    ELSE "a " \o d[1] \o " "
         \o (IF precedence(d[2]) <= precedence(d[1]) THEN "(b " \o d[2] \o " c)" ELSE "b " \o d[2] \o " c")

\* trees with a node of an unknown type as a top-level body, as an
\* expression, as a part of a quoted and of a heredoc template and as a step
\* of a splat, and a tree whose attribute has no value
Unknown == [type |-> "Unknown"]
MalformedTrees ==
    {<<Unknown>>,
     <<Attr("x", Unknown)>>,
     <<Attr("x", [type |-> "QuotedTemplateExpression", parts |-> <<Lit("a"), Unknown>>])>>,
     <<Attr("x", Heredoc(<<Lit("a"), Unknown>>))>>,
     <<Attr("x", [type |-> "SplatOperator", kind |-> "Full", target |-> Var("a"),
                  operations |-> <<Unknown>>])>>,
     <<Attr("x", Null)>>}

\* the trees of the claims about single nodes
ClaimTrees == NestedTrees \cup MalformedTrees

Trees ==
    {TreeNumber, TreeParenthesized, TreeEmptyOneLineBlock, TreeBlock, TreeLeftNested, TreeQuoted,
     TreeHeredocIf, TreeHeredocFor}
    \cup ClaimTrees

\* ------------------------------------------------------------------------
\* The library in use. A caller passes texts to parse and safeParse and
\* trees to schema and stringify, one call at a time.
\* ------------------------------------------------------------------------

VARIABLES
    calls,          \* parse calls made so far
    input,          \* the text of the current parse or safeParse call
    entry,          \* the register as the call before the last one left it
    heredocMarker,  \* the register as the last call left it
    result,         \* what the last parse call returned or threw
    safe,           \* what the last safeParse call returned
    tree,           \* the tree handed to schema and stringify
    origin,         \* where the tree comes from: "parse" or "caller"
    valid,          \* what schema returned for the tree
    text,           \* what stringify returned or threw for the tree
    back,           \* what parse returned or threw for the text of stringify
    stage           \* the last operation performed

vars == <<calls, input, entry, heredocMarker, result, safe, tree, origin, valid, text, back, stage>>

\* the outcome of a parse call as its caller sees it
Outcome(r) == [ok |-> r.ok, error |-> r.error, ast |-> r.ast]

Init ==
    /\ calls = 0
    /\ input \in Inputs
    /\ entry = Null
    /\ heredocMarker = Null
    /\ result = Null
    /\ safe = Null
    /\ tree = Null
    /\ origin = ""
    /\ valid = Null
    /\ text = Null
    /\ back = Null
    /\ stage = "idle"

\* the caller comes with the next text
NextInput(s) ==
    /\ stage # "idle"
    /\ calls < MaxCalls
    /\ input' = s
    /\ result' = Null
    /\ safe' = Null
    /\ tree' = Null
    /\ origin' = ""
    /\ valid' = Null
    /\ text' = Null
    /\ back' = Null
    /\ stage' = "idle"
    /\ UNCHANGED <<calls, entry, heredocMarker>>

\* parse(input)
Parse ==
    /\ stage = "idle"
    /\ calls < MaxCalls
    /\ LET r == parse(input, heredocMarker) IN
         /\ result' = Outcome(r)
         /\ tree' = r.ast
         /\ heredocMarker' = r.hm
    /\ entry' = heredocMarker
    /\ calls' = calls + 1
    /\ origin' = "parse"
    /\ stage' = "parsed"
    /\ UNCHANGED <<input, safe, valid, text, back>>

\* safeParse(input)
SafeParse ==
    /\ stage = "idle"
    /\ calls < MaxCalls
    /\ LET r == safeParse(input, heredocMarker) IN
         /\ safe' = r.value
         /\ heredocMarker' = r.hm
    /\ entry' = heredocMarker
    /\ calls' = calls + 1
    /\ stage' = "safeParsed"
    /\ UNCHANGED <<input, result, tree, origin, valid, text, back>>

\* the caller comes with a tree built by hand
Supply(A) ==
    /\ input' = ""
    /\ result' = Null
    /\ safe' = Null
    /\ tree' = A
    /\ origin' = "caller"
    /\ valid' = Null
    /\ text' = Null
    /\ back' = Null
    /\ stage' = "supplied"
    /\ UNCHANGED <<calls, entry, heredocMarker>>

\* a tree is at hand: parse returned it, or the caller built it
HasTree == (stage = "parsed" /\ result.ok) \/ stage = "supplied"

\* schema.safeParse(tree)
Validate ==
    /\ HasTree
    /\ valid' = schema(tree)
    /\ stage' = "validated"
    /\ UNCHANGED <<calls, input, entry, heredocMarker, result, safe, tree, origin, text, back>>

\* stringify(tree)
Stringify ==
    /\ HasTree
    /\ text' = stringify(tree)
    /\ stage' = "stringified"
    /\ UNCHANGED <<calls, input, entry, heredocMarker, result, safe, tree, origin, valid, back>>

\* parse(stringify(tree))
Reparse ==
    /\ stage = "stringified"
    /\ text.ok
    /\ calls < MaxCalls
    /\ LET r == parse(text.text, heredocMarker) IN
         /\ back' = Outcome(r)
         /\ heredocMarker' = r.hm
    /\ entry' = heredocMarker
    /\ calls' = calls + 1
    /\ stage' = "reparsed"
    /\ UNCHANGED <<input, result, safe, tree, origin, valid, text>>

Next ==
    \/ \E s \in Inputs : NextInput(s)
    \/ Parse
    \/ SafeParse
    \/ \E A \in Trees : Supply(A)
    \/ Validate
    \/ Stringify
    \/ Reparse

Spec == Init /\ [][Next]_vars

\* ------------------------------------------------------------------------
\* Properties
\* ------------------------------------------------------------------------

\* parse(s) as the first call of a run
FreshParse(s) == Outcome(parse(s, Null))

\* C1: for every text that parses, stringify of the parsed tree returns a
\* string, that string parses, and the tree it parses to is deeply equal to
\* the first one.
C1_RoundTrip ==
    /\ (stage = "stringified" /\ origin = "parse") => text.ok
    /\ (stage = "reparsed" /\ origin = "parse") => (back.ok /\ DeepEqual(back.ast, tree))

\* C2: for every tree the schema accepts, parser-made or not, stringify
\* returns a string that parses back to a deeply equal tree.
C2_TreeRoundTrip ==
    (origin = "caller" /\ schema(tree).success) =>
        /\ stage = "stringified" => text.ok
        /\ stage = "reparsed" => (back.ok /\ DeepEqual(back.ast, tree))

\* C3: the schema accepts every tree parse returns, and returns a value
\* deeply equal to it.
C3_SchemaAcceptsParsed ==
    (stage = "validated" /\ origin = "parse") => (valid.success /\ DeepEqual(valid.data, tree))

\* C4: stringify returns a string, and never throws, for every tree parse
\* returns and every tree the schema accepts; the same tree gives the same
\* string.
C4_StringifyTotal ==
    (stage = "stringified" /\ (origin = "parse" \/ schema(tree).success)) =>
        (text.ok /\ text = stringify(tree))

\* C5: whenever stringify returns a string for a parsed tree, that string
\* parses.
C5_OutputParses ==
    (stage = "reparsed" /\ origin = "parse") => back.ok

\* C6: for a looser operator L and a tighter operator H, a L b H c parses
\* to L(a, H(b, c)) and a H b L c parses to L(H(a, b), c).
C6_Precedence ==
    \A L \in BinaryOperators, H \in BinaryOperators :
        (stage = "parsed" /\ precedence(H) > precedence(L)) =>
            /\ input = ExprText(L, H) =>
                   (result.ok
                    /\ DeepEqual(result.ast, <<Attr("x", Bin(L, Var("a"), Bin(H, Var("b"), Var("c"))))>>))
            /\ input = ExprText(H, L) =>
                   (result.ok
                    /\ DeepEqual(result.ast, <<Attr("x", Bin(L, Bin(H, Var("a"), Var("b")), Var("c")))>>))

\* C7: safeParse returns { success: true, data } with the tree of parse
\* exactly when parse succeeds, and { success: false, error } with the
\* error of parse exactly when parse throws.
C7_SafeParseMirrorsParse ==
    stage = "safeParsed" =>
        LET r == FreshParse(input) IN
        IF r.ok THEN DeepEqual(safe, [success |-> TRUE, data |-> r.ast])
        ELSE DeepEqual(safe, [success |-> FALSE, error |-> r.error])

\* safeParse has caught an error that is not a syntax error
C7_Witness ==
    stage = "safeParsed" /\ ~safe.success /\ safe.error = "RangeError"

\* C8: a text with an unterminated string, an unterminated heredoc,
\* unbalanced braces or an unknown escape makes parse throw a syntax error
\* and return no tree.
C8_AllOrNothing ==
    (stage = "parsed" /\ input \in MalformedInputs) =>
        (~result.ok /\ result.error = "SyntaxError" /\ result.ast = Null)

\* C9: a text of whitespace and comments only parses to the empty
\* ConfigFile.
C9_BlankIsEmpty ==
    (stage = "parsed" /\ input \in BlankInputs) => (result.ok /\ result.ast = <<>>)

\* C10: what a parse call returns or throws does not depend on the calls
\* made before it.
C10_FreshRegister ==
    /\ stage = "parsed" => DeepEqual(result, FreshParse(input))
    /\ stage = "reparsed" => DeepEqual(back, FreshParse(text.text))

\* a text that reads the register parses after a call that failed in the
\* middle of a heredoc with that marker
C10_Witness ==
    /\ stage = "parsed"
    /\ calls = 2
    /\ entry = <<"N">>
    /\ input = "x = \"%{if a}N%{endif}\""
    /\ result.ok


\* C11: a block header followed by braces that enclose no body element, on
\* one line or across lines, parses to a Block with bodies = [] and the
\* labels in source order; a header followed by { name = expr } on one line
\* parses to a OneLineBlock with that attribute.
C11_BlockForms ==
    \A ls \in LabelTexts :
        stage = "parsed" =>
            /\ \A br \in EmptyBraces :
                   input = EmptyBlockText(ls, br) =>
                       (result.ok
                        /\ DeepEqual(result.ast,
                                     <<[type |-> "Block", blockType |-> Id("b"),
                                        labels |-> [i \in DOMAIN ls |-> LabelNode(ls[i])],
                                        bodies |-> <<>>]>>))
            /\ input = OneLineText(ls) =>
                   (result.ok
                    /\ DeepEqual(result.ast,
                                 <<[type |-> "OneLineBlock", blockType |-> Id("b"),
                                    labels |-> [i \in DOMAIN ls |-> LabelNode(ls[i])],
                                    attribute |-> Attr("a", Num(1))]>>))

\* an empty block with two labels across lines has been parsed
C11_Witness ==
    /\ stage = "parsed"
    /\ input = EmptyBlockText(<<"\"a\"", "l">>, "{\n}")
    /\ result.ok
    /\ result.ast[1].type = "Block"
    /\ Len(result.ast[1].labels) = 2

C13_PlainHeredoc ==
    \A d \in PlainHeredocs :
        (stage = "parsed" /\ input = HeredocText(d[1], d[2], d[3])) =>
            (result.ok
             /\ DeepEqual(result.ast,
                          <<Attr("x", [type |-> "HeredocTemplateExpression", marker |-> Id(d[2]),
                                       stripIndent |-> (d[1] = "<<-"),
                                       template |-> <<Lit(d[3])>>])>>))

C15_ForIntro ==
    (stage = "parsed" /\ input \in ForIntroInputs) =>
        (/\ result.ok
         /\ result.ast[1].value.type = "ForExpression"
         /\ DeepEqual(result.ast[1].value.intro.iterator, Id("k"))
         /\ DeepEqual(result.ast[1].value.intro.collection, Var("c"))
         /\ input \in ForTwoInputs => DeepEqual(result.ast[1].value.intro.value, Id("v"))
         /\ input \in ForOneInputs => result.ast[1].value.intro.value = Null)

\* C16: a line comment is equivalent to a newline: when an input parses,
\* the input with a line comment (// text or # text, up to the end of the
\* line) inserted before the newline or end of input that terminates an
\* attribute or block parses too, and to the same AST.
C16_LineComment ==
    \A d \in CommentCases :
        (stage = "parsed" /\ input = CommentedText(d) /\ parse(d[1] \o d[3], <<>>).ok) =>
            (result.ok /\ DeepEqual(result.ast, parse(d[1] \o d[3], <<>>).ast))

\* C17: the body of <<M ends only at a line whose identifier, after
\* optional leading whitespace, equals M: an M in the middle of a line or
\* as part of a longer word is body text and does not end the heredoc.
C17_EndMarkerLine ==
    \A b \in MarkerBodies :
        (stage = "parsed" /\ input = HeredocText("<<", "M", b)) =>
            (result.ok
             /\ DeepEqual(result.ast,
                          <<Attr("x", [type |-> "HeredocTemplateExpression", marker |-> Id("M"),
                                       stripIndent |-> FALSE, template |-> <<Lit(b)>>])>>))

\* C18: in every AST that parse returns, the marker of each heredoc is the
\* identifier that terminated that heredoc in the source, also for an outer
\* heredoc whose body holds an interpolation with a heredoc of another
\* marker. In NestedText(o, i, e) the inner heredoc ends at i and the outer
\* one at e, the last line of the input.
C18_HeredocMarker ==
    \A d \in NestedMarkers :
        (stage = "parsed" /\ input = NestedText(d[1], d[2], d[3]) /\ result.ok) =>
            (/\ result.ast[1].value.type = "HeredocTemplateExpression"
             /\ result.ast[1].value.marker.value = d[3]
             /\ result.ast[1].value.template[1].type = "TemplateInterpolation"
             /\ result.ast[1].value.template[1].expression.type = "HeredocTemplateExpression"
             /\ result.ast[1].value.template[1].expression.marker.value = d[2])

\* C19: the heredoc register affects heredoc bodies only: the literal
\* segments of a quoted template, those of directive bodies included, never
\* end at an identifier equal to the register, so the AST of a quoted
\* template is the same whether or not a heredoc, with whatever marker,
\* occurs earlier in the same input.
C19_QuotedTemplate ==
    \A d \in AfterHeredocCases :
        (stage = "parsed" /\ input = AfterHeredoc(d[1], d[2])) =>
            (/\ parse(d[2], <<>>).ok
             /\ result.ok
             /\ Len(result.ast) = 2
             /\ DeepEqual(result.ast[2], parse(d[2], <<>>).ast[1]))

\* C20: [ and { are disambiguated by the keyword for: when the first token
\* after the opening bracket, past whitespace and newlines, is the keyword
\* for, the term is a ForExpression; for every other first token, also an
\* identifier that begins with the letters f, o, r, it is a TupleValue or
\* ObjectValue with that element or key first.
C20_ForKeyword ==
    stage = "parsed" =>
        /\ input \in ForOneInputs \cup ForKeywordInputs =>
               (result.ok /\ result.ast[1].value.type = "ForExpression")
        /\ \A w \in FirstWords :
               /\ input = TupleText(w) =>
                      (result.ok
                       /\ DeepEqual(result.ast,
                                    <<Attr("x", [type |-> "TupleValue", elements |-> <<Var(w)>>])>>))
               /\ input = ObjectText(w) =>
                      (result.ok
                       /\ DeepEqual(result.ast,
                                    <<Attr("x", [type |-> "ObjectValue",
                                                 elements |-> <<[key |-> Id(w), value |-> Num(1)]>>])>>))

\* C21: unary operators bind tighter than every binary operator: for u in
\* {-, !} and a binary operator op, x = u a op b parses to
\* BinaryOperator(op, UnaryOperator(u, a), b), and x = b op u a parses to
\* BinaryOperator(op, b, UnaryOperator(u, a)).
C21_UnaryBindsTighter ==
    \A d \in UnaryCases :
        stage = "parsed" =>
            /\ input = UnaryLeftText(d[1], d[2]) =>
                   (result.ok
                    /\ DeepEqual(result.ast,
                                 <<Attr("x", Bin(d[2], Unary(d[1], Var("a")), Var("b")))>>))
            /\ input = UnaryRightText(d[1], d[2]) =>
                   (result.ok
                    /\ DeepEqual(result.ast,
                                 <<Attr("x", Bin(d[2], Var("b"), Unary(d[1], Var("a"))))>>))

\* C22: the conditional operator has the lowest precedence: a op b ? c : d
\* parses to the ConditionalOperator with predicate BinaryOperator(op, a, b),
\* trueExpr c and falseExpr d, for every binary operator op.
C22_ConditionalLowest ==
    \A op \in LevelOperators :
        (stage = "parsed" /\ input = CondText(op)) =>
            (result.ok
             /\ DeepEqual(result.ast,
                          <<Attr("x", Cond(Bin(op, Var("a"), Var("b")), Var("c"), Var("d")))>>))

\* a op1 b op2 c leans right for two operators of one level, and so does a
\* chain of two conditionals
ChainsLeanRight ==
    /\ \A o \in SameLevelPairs :
           (stage = "parsed" /\ input = ExprText(o[1], o[2])) =>
               (result.ok
                /\ DeepEqual(result.ast,
                             <<Attr("x", Bin(o[1], Var("a"), Bin(o[2], Var("b"), Var("c"))))>>))
    /\ (stage = "parsed" /\ input = ConditionalChain) =>
           (result.ok
            /\ DeepEqual(result.ast,
                         <<Attr("x", Cond(Var("a"), Var("b"), Cond(Var("c"), Var("d"), Var("e"))))>>))

C24_BinaryRoundTrip ==
    (origin = "parse" /\ input \in BinaryOnlyInputs) =>
        /\ stage = "stringified" => text.ok
        /\ stage = "reparsed" => (back.ok /\ DeepEqual(back.ast, tree))

\* C25: stringify wraps the left child of a BinaryOperator of precedence p
\* in parentheses exactly when it is a BinaryOperator of precedence < p, and
\* the right child exactly when it is a BinaryOperator of precedence <= p,
\* for every operator, && and || included.
C25_Parenthesization ==
    \A d \in NestedCases :
        (stage = "stringified" /\ origin = "caller" /\ tree = <<Attr("x", NestedNode(d))>>) =>
            (text.ok /\ text.text = "x = " \o WrappedText(d))

\* C26: in every parse result an index operator in the tail of a term
\* carries its target, the operations of a full splat are target-less
\* GetAttribute steps and IndexOperator nodes, never a LegacyIndexOperator,
\* the attributes of an attribute splat are target-less GetAttribute steps,
\* and stringify emits every step of these lists.
C26_PostfixShapes ==
    /\ (stage = "parsed" /\ result.ok) =>
           /\ SplatShapes(result.ast)
           /\ \A i \in 1..Len(result.ast) :
                  TypeIn(result.ast[i], {"Attribute"}) => PostfixTargets(result.ast[i].value)
    /\ (stage = "stringified" /\ origin = "parse" /\ input \in SplatTexts) =>
           (text.ok /\ text.text = input)

\* C27: stringify throws, and returns no string, when a node anywhere in
\* the tree has a type it does not know or a required expression is missing.
C27_FailsLoudly ==
    (stage = "stringified" /\ origin = "caller" /\ tree \in MalformedTrees) => ~text.ok

\* C28: escape sequences decode to the character they name, in string
\* labels and in quoted templates: \n, \r, \t, \" and \\, \u with four hex
\* digits, \U with eight hex digits, all eight consumed, and in quoted
\* templates $$ to $ and %% to %.
C28_Escapes ==
    stage = "parsed" =>
        /\ \A e \in Escapes :
               input = EscapedLabelText(e[1]) =>
                   (result.ok
                    /\ DeepEqual(result.ast,
                                 <<[type |-> "Block", blockType |-> Id("b"),
                                    labels |-> <<[type |-> "StringLiteral", value |-> e[2]]>>,
                                    bodies |-> <<>>]>>))
        /\ \A e \in Escapes \cup TemplateEscapes :
               input = EscapedTemplateText(e[1]) =>
                   (result.ok
                    /\ DeepEqual(result.ast,
                                 <<Attr("x", [type |-> "QuotedTemplateExpression",
                                              parts |-> <<Lit(e[2])>>])>>))

\* C29: literal text survives the round trip: for the value v of a
\* TemplateLiteral of a quoted template and of a StringLiteral label that
\* parse produces, values with a quote, a backslash, a newline, a tab, a
\* dollar or a percent sign included, the text that stringify emits parses
\* to a node with the value v.
C29_LiteralRoundTrip ==
    (origin = "parse" /\ input \in EscapeInputs) =>
        /\ stage = "stringified" => text.ok
        /\ stage = "reparsed" => (back.ok /\ SameLiteral(tree, back.ast))

\* C30: every identifier n other than true, false and null is a variable
\* reference: x = n parses to an Attribute whose value is the
\* VariableExpression with the name n, also when n begins with a keyword.
C30_VariableReference ==
    \A n \in VariableNames :
        (stage = "parsed" /\ input = VariableText(n)) =>
            (result.ok /\ DeepEqual(result.ast, <<Attr("x", Var(n))>>))
====
